---- MODULE Spec2Model ----
(***************************************************************************)
(* A model of the response-rendering pipeline of the SQL Analyst chat:     *)
(* the ChatMessage component (query execution state, the auto-run effect,  *)
(* the code-block renderer, the table extractor) of                        *)
(* frontend/components/SchemaPanel.tsx, with the SqlRenderer and the       *)
(* executeQuery service it calls.                                          *)
(*                                                                         *)
(* Strings the code inspects character by character (language tags, SQL    *)
(* texts) are sequences of one-character strings, so that trim,            *)
(* toUpperCase, toLowerCase, startsWith and the regular expressions are    *)
(* computed, not assumed.                                                  *)
(***************************************************************************)
EXTENDS Integers, Sequences, FiniteSets, TLC

VARIABLES
    message,          \* ChatMessage prop: [role, content], content = the fenced blocks in document order
    dbContext,        \* ChatMessage prop: NoCtx (undefined) or a connection context
    mounted,          \* whether the component has rendered and run its mount effect
    isExecuting,      \* useState(false)
    executionResult,  \* useState(null): Absent or Some([run, headers, data, error])
    hasAutoRun,       \* useRef(false).current
    calls,            \* the executeQuery calls issued so far, in order: [sql, origin]
    inflight,         \* indices into calls whose promise has not settled
    className,        \* code renderer prop: NoClass or "language-" + tag
    children,         \* code renderer prop: the block body followed by a newline
    kind,             \* what the code renderer returned: Unrendered, then sql / diagram / generic / plain
    node,             \* table renderer prop: the HAST table node
    tableInfo,        \* table renderer: what extractTableData returned, Absent (null) or Some([headers, data])
    tableShown,       \* table renderer: Unrendered, then "visualizer" or "fallback"
    response,         \* what the network answers to one executeQuery call
    stored,           \* the value handleRunQuery stores for response: Absent until it has settled
    props,            \* DataVisualizer props: [headers, data]
    viewMode,         \* DataVisualizer: useState('table')
    numericKeys,      \* DataVisualizer: the numeric headers computed by the render, Absent before it
    csvContent,       \* DataVisualizer: the text of the last export, Absent before the first
    sqlCode,          \* SqlRenderer prop code
    complexity,       \* SqlRenderer: the label of useMemo, Unrendered before the render
    messages,         \* App: useState([welcome]), the transcript
    input,            \* App: useState("")
    isLoading,        \* App: useState(false)
    pending,          \* App: the query of the generateSqlAnalysis call awaited, Absent when none
    answered,         \* App: what the network answered to the completion requests, in order
    now,              \* what Date.now() returns
    diagramCode,      \* MermaidRenderer prop code
    alive,            \* MermaidRenderer: "new" before the mount, then "mounted", then "torn"
    svg,              \* MermaidRenderer: useState(""): Absent or Some([by, code]) of the render that set it
    error,            \* MermaidRenderer: useState(null): Absent or Some([by, code])
    renders,          \* the effect runs so far, in order: [code, isMounted]
    rendering,        \* indices into renders whose mermaid.render has not settled
    settled,          \* the indices of the renders that have settled, in the order they did
    instances,        \* App renders one ChatMessage per message id: id -> the state of that instance
    current           \* the id of the instance whose handler, effect or continuation ran last

vars == <<message, dbContext, mounted, isExecuting, executionResult, hasAutoRun,
          calls, inflight, className, children, kind, node, tableInfo, tableShown,
          response, stored, props, viewMode, numericKeys, csvContent,
          sqlCode, complexity, messages, input, isLoading, pending, answered, now,
          diagramCode, alive, svg, error, renders, rendering, settled,
          instances, current>>

execVars == <<message, dbContext, mounted, isExecuting, executionResult, hasAutoRun,
              calls, inflight>>

codeVars == <<className, children, kind>>

tableVars == <<node, tableInfo, tableShown>>

outcomeVars == <<response, stored>>

vizVars == <<props, viewMode, numericKeys, csvContent>>

\* the message pipeline of SchemaPanel.tsx, and the components beside it
pipelineVars == <<execVars, codeVars, tableVars, outcomeVars>>

scoreVars == <<sqlCode, complexity>>

appVars == <<messages, input, isLoading, pending, answered, now>>

mermaidVars == <<diagramCode, alive, svg, error, renders, rendering, settled>>

pairVars == <<instances, current>>

restVars == <<vizVars, scoreVars, appVars, mermaidVars, pairVars>>

\* what an action of one component leaves alone
besidesViz == <<pipelineVars, scoreVars, appVars, mermaidVars, pairVars>>

besidesScore == <<pipelineVars, vizVars, appVars, mermaidVars, pairVars>>

besidesApp == <<pipelineVars, vizVars, scoreVars, mermaidVars, pairVars>>

besidesMermaid == <<pipelineVars, vizVars, scoreVars, appVars, pairVars>>

besidesPair == <<codeVars, tableVars, outcomeVars, vizVars, scoreVars, appVars, mermaidVars>>

----------------------------------------------------------------------------
(* Characters and the string functions of the JavaScript runtime.          *)

LowerAlpha == <<"a","b","c","d","e","f","g","h","i","j","k","l","m",
                "n","o","p","q","r","s","t","u","v","w","x","y","z">>

UpperAlpha == <<"A","B","C","D","E","F","G","H","I","J","K","L","M",
                "N","O","P","Q","R","S","T","U","V","W","X","Y","Z">>

Digits == {"0","1","2","3","4","5","6","7","8","9"}

Range(s) == {s[i] : i \in DOMAIN s}

\* String.prototype.toUpperCase, one character
UpperChar(c) ==
    IF \E i \in DOMAIN LowerAlpha : LowerAlpha[i] = c
    THEN UpperAlpha[CHOOSE i \in DOMAIN LowerAlpha : LowerAlpha[i] = c]
    ELSE c

\* String.prototype.toLowerCase, one character
LowerChar(c) ==
    IF \E i \in DOMAIN UpperAlpha : UpperAlpha[i] = c
    THEN LowerAlpha[CHOOSE i \in DOMAIN UpperAlpha : UpperAlpha[i] = c]
    ELSE c

toUpperCase(s) == [i \in DOMAIN s |-> UpperChar(s[i])]

toLowerCase(s) == [i \in DOMAIN s |-> LowerChar(s[i])]

\* the white space String.prototype.trim removes
IsSpace(c) == c \in {" ", "\n", "\t", "\r"}

\* the regular expression class \w
IsWordChar(c) == c \in Range(LowerAlpha) \cup Range(UpperAlpha) \cup Digits \cup {"_"}

RECURSIVE trimStart(_)
trimStart(s) ==
    IF s # <<>> /\ IsSpace(Head(s)) THEN trimStart(Tail(s)) ELSE s

RECURSIVE trimEnd(_)
trimEnd(s) ==
    IF s # <<>> /\ IsSpace(s[Len(s)]) THEN trimEnd(SubSeq(s, 1, Len(s) - 1)) ELSE s

trim(s) == trimEnd(trimStart(s))

startsWith(s, p) == Len(s) >= Len(p) /\ SubSeq(s, 1, Len(p)) = p

----------------------------------------------------------------------------
(* Values.                                                                 *)

NoCtx == "undefined"
Contexts == {"ctx1", "ctx2"}

\* an optional value is a sequence of length 0 (undefined, null) or 1
Absent == <<>>
Some(v) == <<v>>

\* a fence without a language tag; a code element without className
NoTag == <<>>
NoClass == <<>>
Unrendered == "unrendered"

\* language tags of fenced blocks
TagSql == <<"s","q","l">>
TagSqlUpper == <<"S","Q","L">>
TagMongodb == <<"m","o","n","g","o","d","b">>
TagMermaid == <<"m","e","r","m","a","i","d">>
TagPy == <<"p","y">>

\* block bodies
TxtSelect == <<"S","E","L","E","C","T"," ","1">>
TxtSelectLower == <<" ","s","e","l","e","c","t"," ","2">>
TxtWith == <<"\n","W","i","t","h"," ","c">>
TxtDrop == <<"D","R","O","P"," ","t">>
TxtSelec == <<"S","E","L","E","C">>
TxtBlank == <<" ">>
TxtEmpty == <<>>
TxtFind == <<"d","b",".","f","(",")">>
TxtGraph == <<"g","r","a","p","h">>

Block(t, x) == [tag |-> t, text |-> x]

\* message.content of the messages rendered: the fenced blocks in document order
Contents ==
    { <<>>,
      <<Block(TagSql, TxtSelect)>>,
      <<Block(TagSql, TxtSelec)>>,
      <<Block(TagSql, TxtBlank)>>,
      <<Block(TagSql, TxtEmpty)>>,
      <<Block(TagSql, TxtDrop), Block(TagSql, TxtSelect)>>,
      <<Block(TagSql, TxtSelect), Block(TagSql, TxtWith)>>,
      <<Block(TagMongodb, TxtFind), Block(TagSql, TxtSelectLower)>>,
      <<Block(TagSqlUpper, TxtDrop), Block(TagSql, TxtWith)>>,
      <<Block(TagMermaid, TxtGraph), Block(TagPy, TxtSelect)>>,
      <<Block(NoTag, TxtSelect), Block(TagSql, TxtDrop)>> }

Roles == {"user", "assistant"}

Messages == [role : Roles, content : Contents]

\* the most executeQuery calls one message issues in a behaviour
MaxRuns == 3

----------------------------------------------------------------------------
(* The markdown library: a fenced block with language tag t and body x     *)
(* reaches the code renderer with className "language-" + t (none without  *)
(* a tag) and children x + "\n".                                           *)

LanguagePrefix == <<"l","a","n","g","u","a","g","e","-">>

ClassNameOf(t) == IF t = NoTag THEN NoClass ELSE LanguagePrefix \o t

ChildrenOf(x) == Append(x, "\n")

----------------------------------------------------------------------------
(* The code renderer (CodeBlockClassifier).                                *)

\* the result of RegExp.exec / String.match: null, or a match with its group 1
NoMatch == [found |-> FALSE, group |-> <<>>]
Match(g) == [found |-> TRUE, group |-> g]

\* the longest run of \w characters of s from position p on
RECURSIVE WordRun(_, _)
WordRun(s, p) ==
    IF p <= Len(s) /\ IsWordChar(s[p]) THEN <<s[p]>> \o WordRun(s, p + 1) ELSE <<>>

\* whether /language-(\w+)/ matches s at position p
MatchesAt(s, p) ==
    /\ p + Len(LanguagePrefix) <= Len(s)
    /\ SubSeq(s, p, p + Len(LanguagePrefix) - 1) = LanguagePrefix
    /\ IsWordChar(s[p + Len(LanguagePrefix)])

\* /language-(\w+)/.exec(s) from position p on: group 1 of the leftmost match
RECURSIVE ExecFrom(_, _)
ExecFrom(s, p) ==
    IF p > Len(s) THEN NoMatch
    ELSE IF MatchesAt(s, p) THEN Match(WordRun(s, p + Len(LanguagePrefix)))
    ELSE ExecFrom(s, p + 1)

\* const match = /language-(\w+)/.exec(className || "")
LanguageMatch(cls) == ExecFrom(cls, 1)

\* a comparison without toLowerCase
MatchIsExact(match, tag) == match.found /\ match.group = tag

\* match && match[1].toLowerCase() === tag
MatchIs(match, tag) == match.found /\ toLowerCase(match.group) = tag

\* codeText = String(children).replace(/\n$/, "")
CodeText(ch) ==
    IF ch # <<>> /\ ch[Len(ch)] = "\n" THEN SubSeq(ch, 1, Len(ch) - 1) ELSE ch

\* the branch the code renderer takes
Classify(cls) ==
    LET match == LanguageMatch(cls)
        isSql == MatchIs(match, TagSql)
        isMongodb == MatchIs(match, TagMongodb)
        isMermaid == MatchIs(match, TagMermaid)
    IN  IF isMermaid THEN "diagram"
        ELSE IF isSql \/ isMongodb THEN "sql"
        ELSE IF match.found THEN "generic"
        ELSE "plain"

\* code({ className, children }): the element returned and the text it carries
code(cls, ch) == [kind |-> Classify(cls), codeText |-> CodeText(ch)]

\* language tags handed to the code renderer
Tags ==
    { NoTag, TagSql, TagSqlUpper, <<"S","q","l">>, TagMongodb, <<"M","o","n","g","o","D","B">>,
      TagMermaid, <<"M","E","R","M","A","I","D">>, <<"M","e","r","m","a","i","d">>,
      TagPy, <<"j","s","o","n">>, <<"s","q">>, <<"s","q","l","i","t","e">>,
      <<"m","y","_","s","q","l">>, <<"s","q","l","2">>,
      <<"c","+","+">>, <<"s","q","l","-","x">>, <<"m","e","r","m","a","i","d","+">>,
      <<"+","+">>, <<"-","s","q","l">>,
      <<"+">> \o LanguagePrefix \o TagSql }

\* block bodies handed to the code renderer
Texts == {TxtSelect, TxtDrop, TxtGraph, TxtEmpty}

\* the code renderer renders one block
RenderCode ==
    /\ kind = Unrendered
    /\ kind' = code(className, children).kind
    /\ UNCHANGED <<className, children, execVars, tableVars, outcomeVars, restVars>>

----------------------------------------------------------------------------
(* ChatMessage: query execution.                                           *)

KwSelect == <<"S","E","L","E","C","T">>
KwWith == <<"W","I","T","H">>

\* what the network and the backend can answer to POST /api/execute
Successes == {Absent, Some(TRUE), Some(FALSE)}
Columns == {Absent, Some(<<"id">>)}
Rows == {Absent, Some(<<>>), Some(<<1>>)}
Errors == {Absent, Some(""), Some("relation t does not exist")}

Bodies == [success : Successes, columns : Columns, rows : Rows, error : Errors]

\* fetch rejects, or response.json() gives null or an object
NetOutcomes ==
    {[fetch |-> "rejected", json |-> Absent], [fetch |-> "ok", json |-> Absent]}
    \cup {[fetch |-> "ok", json |-> Some(b)] : b \in Bodies}

\* executeQuery(connection, query), given what the network did
executeQuery(net) ==
    IF net.fetch = "rejected"
    THEN Some([success |-> Some(FALSE), columns |-> Absent, rows |-> Absent,
               error |-> Some("Query execution failed: TypeError: Failed to fetch")])
    ELSE net.json

\* JavaScript truthiness of an optional boolean, of an optional string, of an optional array
TruthyBool(v) == v = Some(TRUE)
TruthyStr(v) == v # Absent /\ v # Some("")
TruthyArr(v) == v # Absent

\* an outcome mapping that takes one of columns and rows for a well-formed result
CompletionEitherField(result) ==
    IF result = Absent
    THEN [headers |-> <<>>, data |-> <<>>,
          error |-> Some("TypeError: Cannot read properties of null")]
    ELSE LET r == result[1]
         IN  IF TruthyBool(r.success) /\ (TruthyArr(r.columns) \/ TruthyArr(r.rows))
             THEN [headers |-> IF r.columns = Absent THEN <<>> ELSE r.columns[1],
                   data |-> IF r.rows = Absent THEN <<>> ELSE r.rows[1], error |-> Absent]
             ELSE [headers |-> <<>>, data |-> <<>>,
                   error |-> IF TruthyStr(r.error) THEN r.error
                             ELSE Some("Unknown error occurred")]

\* the value handleRunQuery passes to setExecutionResult once the call settles
Completion(result) ==
    IF result = Absent
    THEN [headers |-> <<>>, data |-> <<>>,
          error |-> Some("TypeError: Cannot read properties of null")]
    ELSE LET r == result[1]
         IN  IF TruthyBool(r.success) /\ TruthyArr(r.columns) /\ TruthyArr(r.rows)
             THEN [headers |-> r.columns[1], data |-> r.rows[1], error |-> Absent]
             ELSE [headers |-> <<>>, data |-> <<>>,
                   error |-> IF TruthyStr(r.error) THEN r.error
                             ELSE Some("Unknown error occurred")]

\* one call of handleRunQuery settles: the value it stores for the network's answer
Settle ==
    /\ stored = Absent
    /\ stored' = Some(Completion(executeQuery(response)))
    /\ UNCHANGED <<response, execVars, codeVars, tableVars, restVars>>

\* a run that keeps the previous result on screen
handleRunQueryKeepResult(ctx, sql, origin) ==
    IF ctx = NoCtx
    THEN UNCHANGED <<isExecuting, executionResult, calls, inflight>>
    ELSE /\ isExecuting' = TRUE
         /\ UNCHANGED executionResult
         /\ calls' = Append(calls, [sql |-> sql, origin |-> origin])
         /\ inflight' = inflight \cup {Len(calls) + 1}

\* handleRunQuery(sql) up to its await, in a render whose dbContext is ctx
handleRunQuery(ctx, sql, origin) ==
    IF ctx = NoCtx
    THEN UNCHANGED <<isExecuting, executionResult, calls, inflight>>
    ELSE /\ isExecuting' = TRUE
         /\ executionResult' = Absent
         /\ calls' = Append(calls, [sql |-> sql, origin |-> origin])
         /\ inflight' = inflight \cup {Len(calls) + 1}

\* message.content.match(/```sql\n([\s\S]*?)\n```/): group 1 of the leftmost match
RECURSIVE sqlMatch(_)
sqlMatch(content) ==
    IF content = <<>> THEN NoMatch
    ELSE IF Head(content).tag = TagSql THEN Match(Head(content).text)
    ELSE sqlMatch(Tail(content))

\* a gate that knows SELECT only
SafetyGateSelectOnly(sql) == startsWith(toUpperCase(sql), KwSelect)

\* sql.toUpperCase().startsWith('SELECT') || sql.toUpperCase().startsWith('WITH')
SafetyGate(sql) ==
    startsWith(toUpperCase(sql), KwSelect) \/ startsWith(toUpperCase(sql), KwWith)

\* the early return without the one-shot flag
EffectReturnsNoGuard(ctx) == ctx = NoCtx \/ message.role # "assistant"

\* the early return without the role test
EffectReturnsAnyRole(ctx) == ctx = NoCtx \/ hasAutoRun

\* the early return of the auto-run effect
EffectReturns(ctx) == ctx = NoCtx \/ hasAutoRun \/ message.role # "assistant"

\* the auto-run effect, in a render whose dbContext is ctx
AutoRunEffect(ctx) ==
    LET m == sqlMatch(message.content)
        sql == trim(m.group)
    IN  IF ~EffectReturns(ctx) /\ m.found /\ m.group # <<>> /\ SafetyGate(sql)
        THEN hasAutoRun' = TRUE /\ handleRunQuery(ctx, sql, "auto")
        ELSE UNCHANGED <<hasAutoRun, isExecuting, executionResult, calls, inflight>>

\* first render of the component: the effect runs once
Mount ==
    /\ ~mounted
    /\ mounted' = TRUE
    /\ AutoRunEffect(dbContext)
    /\ UNCHANGED <<message, dbContext, codeVars, tableVars, outcomeVars, restVars>>

\* the effect runs again without a change of its dependencies (Strict Mode)
Refire ==
    /\ mounted
    /\ Len(calls) < MaxRuns
    /\ AutoRunEffect(dbContext)
    /\ UNCHANGED <<message, dbContext, mounted, codeVars, tableVars, outcomeVars, restVars>>

\* the parent passes another dbContext: re-render, the effect runs again
SetDbContext(c) ==
    /\ mounted
    /\ Len(calls) < MaxRuns
    /\ c # dbContext
    /\ dbContext' = c
    /\ AutoRunEffect(c)
    /\ UNCHANGED <<message, mounted, codeVars, tableVars, outcomeVars, restVars>>

\* the blocks of the message under which a Run Query button is rendered
RunButtons ==
    {b \in DOMAIN message.content :
        /\ dbContext # NoCtx
        /\ code(ClassNameOf(message.content[b].tag),
                ChildrenOf(message.content[b].text)).kind = "sql"}

\* the blocks of the message the code renderer classifies as sql
SqlBlocks ==
    {b \in DOMAIN message.content :
        code(ClassNameOf(message.content[b].tag),
             ChildrenOf(message.content[b].text)).kind = "sql"}

\* the panel of a result: Execution Failed with a truthy error, else Query Results
PanelOf(result) ==
    IF result = Absent THEN "none"
    ELSE IF TruthyStr(result[1].error) THEN "failed"
    ELSE "results"

\* an area that belongs to the block whose text was sent last
ShownUnderOwn(b) ==
    IF calls # <<>> /\ calls[Len(calls)].sql = CodeText(ChildrenOf(message.content[b].text))
    THEN [spinner |-> isExecuting, panel |-> PanelOf(executionResult), of |-> executionResult]
    ELSE [spinner |-> FALSE, panel |-> "none", of |-> Absent]

\* the execution result area the code renderer puts under sql block b: the
\* spinner, and the panel of the result
ShownUnder(b) ==
    [spinner |-> isExecuting, panel |-> PanelOf(executionResult), of |-> executionResult]

\* the Run Query button of block b is on screen and takes a click
RunClickable(b) ==
    /\ mounted
    /\ Len(calls) < MaxRuns
    /\ b \in RunButtons

\* a click on the Run Query button of block b: onRun(code)
ManualRun(b) ==
    /\ RunClickable(b)
    /\ handleRunQuery(dbContext,
                      code(ClassNameOf(message.content[b].tag),
                           ChildrenOf(message.content[b].text)).codeText,
                      "manual")
    /\ UNCHANGED <<message, dbContext, mounted, hasAutoRun, codeVars, tableVars, outcomeVars, restVars>>

\* a handleRunQuery that clears isExecuting at the end of its try block only
RespondNoFinally(i, net) ==
    /\ i \in inflight
    /\ executionResult' = Some([run |-> i] @@ Completion(executeQuery(net)))
    /\ isExecuting' = IF executeQuery(net) = Absent THEN isExecuting ELSE FALSE
    /\ inflight' = inflight \ {i}
    /\ UNCHANGED <<message, dbContext, mounted, hasAutoRun, calls, codeVars, tableVars, outcomeVars, restVars>>

\* the promise of call i settles: the rest of handleRunQuery
Respond(i, net) ==
    /\ i \in inflight
    /\ executionResult' = Some([run |-> i] @@ Completion(executeQuery(net)))
    /\ isExecuting' = FALSE
    /\ inflight' = inflight \ {i}
    /\ UNCHANGED <<message, dbContext, mounted, hasAutoRun, calls, codeVars, tableVars, outcomeVars, restVars>>

----------------------------------------------------------------------------
(* Numbers: parseFloat and the values it gives. A finite number is         *)
(* (-1)^neg * digits * 10^exp, digits without leading and trailing zeros.  *)

NaN == [kind |-> "nan", neg |-> FALSE, digits |-> <<>>, exp |-> 0]
Infinity(neg) == [kind |-> "inf", neg |-> neg, digits |-> <<>>, exp |-> 0]

\* the largest decimal exponent of a finite double
MaxDoubleExp == 308

DigitSeq == <<"0","1","2","3","4","5","6","7","8","9">>

DigitVal(c) == (CHOOSE i \in DOMAIN DigitSeq : DigitSeq[i] = c) - 1

\* the longest run of digits of s that starts at position p
DigitRun(s, p) ==
    LET q == CHOOSE k \in p..(Len(s) + 1) :
                 /\ \A j \in p..(k - 1) : s[j] \in Digits
                 /\ k <= Len(s) => s[k] \notin Digits
    IN  SubSeq(s, p, q - 1)

RECURSIVE NatOf(_)
NatOf(ds) ==
    IF ds = <<>> THEN 0 ELSE 10 * NatOf(SubSeq(ds, 1, Len(ds) - 1)) + DigitVal(ds[Len(ds)])

RECURSIVE StripLeadingZeros(_)
StripLeadingZeros(ds) ==
    IF ds # <<>> /\ Head(ds) = "0" THEN StripLeadingZeros(Tail(ds)) ELSE ds

RECURSIVE Finite(_, _, _)
Finite(neg, ds, e) ==
    LET d == StripLeadingZeros(ds)
    IN  IF d = <<>> THEN [kind |-> "finite", neg |-> neg, digits |-> <<>>, exp |-> 0]
        ELSE IF d[Len(d)] = "0" THEN Finite(neg, SubSeq(d, 1, Len(d) - 1), e + 1)
        ELSE IF Len(d) + e > MaxDoubleExp + 1 THEN Infinity(neg)
        ELSE [kind |-> "finite", neg |-> neg, digits |-> d, exp |-> e]

KwInfinity == <<"I","n","f","i","n","i","t","y">>

\* the value of the exponent part of u, if one starts at position e
ExponentAt(u, e) ==
    IF e > Len(u) \/ u[e] \notin {"e", "E"} THEN 0
    ELSE IF e + 1 <= Len(u) /\ u[e + 1] = "-" THEN 0 - NatOf(DigitRun(u, e + 2))
    ELSE IF e + 1 <= Len(u) /\ u[e + 1] = "+" THEN NatOf(DigitRun(u, e + 2))
    ELSE NatOf(DigitRun(u, e + 1))

\* the value of integer part ip and fraction fp of u, the exponent part after them
Scaled(neg, u, ip, fp, e) ==
    IF ip = <<>> /\ fp = <<>> THEN NaN
    ELSE Finite(neg, ip \o fp, ExponentAt(u, e) - Len(fp))

\* the fraction of u after integer part ip: the digits after a dot, if there is one
Fraction(neg, u, ip, fp) ==
    IF Len(ip) + 1 <= Len(u) /\ u[Len(ip) + 1] = "."
    THEN Scaled(neg, u, ip, fp, Len(ip) + 2 + Len(fp))
    ELSE Scaled(neg, u, ip, <<>>, Len(ip) + 1)

\* the value of the unsigned literal u
Unsigned(neg, u, ip) ==
    IF startsWith(u, KwInfinity) THEN Infinity(neg)
    ELSE Fraction(neg, u, ip, DigitRun(u, Len(ip) + 2))

\* the value of the literal t, with its sign
Signed(t) ==
    IF t # <<>> /\ t[1] \in {"-", "+"}
    THEN Unsigned(t[1] = "-", Tail(t), DigitRun(Tail(t), 1))
    ELSE Unsigned(FALSE, t, DigitRun(t, 1))

\* parseFloat(s): the value of the longest prefix of s that is a decimal literal
parseFloat(s) == Signed(trimStart(s))

\* !isNaN(num) && isFinite(num)
IsFiniteNumber(num) == num.kind = "finite"

\* s.replace(/,/g, "")
RemoveCommas(s) == SelectSeq(s, LAMBDA c : c # ",")

\* /^-?[\d,]+(\.\d+)?$/.test(s)
NumericPattern(s) ==
    LET u == IF s # <<>> /\ s[1] = "-" THEN Tail(s) ELSE s
        n == CHOOSE k \in 0..Len(u) :
                 /\ \A j \in 1..k : u[j] \in Digits \cup {","}
                 /\ k < Len(u) => u[k + 1] \notin Digits \cup {","}
    IN  /\ n >= 1
        /\ \/ n = Len(u)
           \/ /\ u[n + 1] = "."
              /\ n + 2 <= Len(u)
              /\ \A j \in (n + 2)..Len(u) : u[j] \in Digits

----------------------------------------------------------------------------
(* The table extractor (TableAstExtractor) and the table renderer.         *)

\* HAST nodes: a text leaf, an element with a children array, an element without
\* children, an element whose children property is something other than an array
TextNode(v) == [type |-> "text", tagName |-> "", value |-> v, children |-> Absent]
Element(tag, kids) == [type |-> "element", tagName |-> tag, value |-> <<>>, children |-> Some(kids)]
Malformed(tag) == [type |-> "element", tagName |-> tag, value |-> <<>>, children |-> Absent]
NotArray == <<<<>>, <<>>>>
NonArray(tag) == [type |-> "element", tagName |-> tag, value |-> <<>>, children |-> NotArray]

\* n.children && Array.isArray(n.children)
HasArray(n) == Len(n.children) = 1

RECURSIVE Concat(_)
Concat(ss) == IF ss = <<>> THEN <<>> ELSE Head(ss) \o Concat(Tail(ss))

\* getText(n): the text of all descendant leaves, left to right
RECURSIVE getText(_)
getText(n) ==
    IF n.type = "text" THEN n.value
    ELSE IF HasArray(n)
    THEN Concat([i \in DOMAIN n.children[1] |-> getText(n.children[1][i])])
    ELSE <<>>

\* a find that takes the last such element
FindLast(arr, tag) ==
    IF \E i \in DOMAIN arr : arr[i].tagName = tag
    THEN Some(arr[CHOOSE i \in DOMAIN arr :
                     /\ arr[i].tagName = tag
                     /\ \A j \in (i + 1)..Len(arr) : arr[j].tagName # tag])
    ELSE Absent

\* array.find(c => c.tagName === tag): undefined or the first such element
Find(arr, tag) ==
    IF \E i \in DOMAIN arr : arr[i].tagName = tag
    THEN Some(arr[CHOOSE i \in DOMAIN arr :
                     /\ arr[i].tagName = tag
                     /\ \A j \in 1..(i - 1) : arr[j].tagName # tag])
    ELSE Absent

\* array.filter(c => c.tagName === tag)
Filter(arr, tag) == SelectSeq(arr, LAMBDA c : c.tagName = tag)

\* a cell value: a number or a string
NumberValue(num) == [isNumber |-> TRUE, num |-> num, str |-> <<>>]
StringValue(str) == [isNumber |-> FALSE, num |-> NaN, str |-> str]

\* a coercion that leaves out the test against the pattern
CellValueNoPattern(textValue) ==
    IF IsFiniteNumber(parseFloat(RemoveCommas(textValue)))
    THEN NumberValue(parseFloat(RemoveCommas(textValue)))
    ELSE StringValue(textValue)

\* value = num when num is finite and textValue matches the pattern, else textValue
Coerce(textValue, num) ==
    IF IsFiniteNumber(num) /\ NumericPattern(textValue)
    THEN NumberValue(num)
    ELSE StringValue(textValue)

\* the value stored for a cell whose trimmed text is textValue
CellValue(textValue) == Coerce(textValue, parseFloat(RemoveCommas(textValue)))

\* a record in which the first cell of a header name stays
RowDataFirstWins(row, headers) ==
    LET cells == Filter(row.children[1], "td")
        used == {i \in DOMAIN cells : i <= Len(headers)}
        first(h) == CHOOSE i \in used : headers[i] = h /\ \A j \in used : headers[j] = h => i <= j
    IN  [h \in {headers[i] : i \in used} |-> CellValue(trim(getText(cells[first(h)])))]

\* the record built for one body row: cell i is stored under headers[i]
RowData(row, headers) ==
    LET cells == Filter(row.children[1], "td")
        used == {i \in DOMAIN cells : i <= Len(headers)}
        last(h) == CHOOSE i \in used : headers[i] = h /\ \A j \in used : headers[j] = h => j <= i
    IN  [h \in {headers[i] : i \in used} |-> CellValue(trim(getText(cells[last(h)])))]

Returned(v) == [threw |-> FALSE, value |-> v]
Thrown == [threw |-> TRUE, value |-> Absent]

\* the try block of extractTableData, from its last step back to its first:
\* what it returns, or that it throws a TypeError.
\* lines 719-754: the records of the data rows, none without rows
ExtractData(headers, dataRows) ==
    IF \E i \in DOMAIN dataRows : ~HasArray(dataRows[i]) THEN Thrown
    ELSE IF dataRows = <<>> THEN Returned(Absent)
    ELSE Returned(Some([headers |-> headers,
                        data |-> [i \in DOMAIN dataRows |-> RowData(dataRows[i], headers)]]))

\* lines 712-717: no dataset without headers; the rows of tbody
ExtractRows(headers, tbody) ==
    IF Len(headers) = 0 THEN Returned(Absent)
    ELSE IF tbody = Absent THEN ExtractData(headers, <<>>)
    ELSE IF ~HasArray(tbody[1]) THEN Thrown
    ELSE ExtractData(headers, Filter(tbody[1].children[1], "tr"))

\* the trimmed texts of the th cells
HeaderTexts(ths) == [i \in DOMAIN ths |-> trim(getText(ths[i]))]

\* lines 706-710: no dataset without a header row; its th cells
ExtractHeaders(headerRow, tbody) ==
    IF headerRow = Absent THEN Returned(Absent)
    ELSE IF ~HasArray(headerRow[1]) THEN Thrown
    ELSE ExtractRows(HeaderTexts(Filter(headerRow[1].children[1], "th")), tbody)

\* lines 702-705: no dataset without thead; thead.children?.find
ExtractHeaderRow(thead, tbody) ==
    IF thead = Absent THEN Returned(Absent)
    ELSE IF thead[1].children = Absent THEN ExtractHeaders(Absent, tbody)
    ELSE IF ~HasArray(thead[1]) THEN Thrown
    ELSE ExtractHeaders(Find(thead[1].children[1], "tr"), tbody)

\* lines 698-699: the first thead and the first tbody of the children
ExtractGroups(kids) == ExtractHeaderRow(Find(kids, "thead"), Find(kids, "tbody"))

\* line 695: node.children || []
ExtractBody(n) ==
    IF n.children = Absent THEN ExtractGroups(<<>>)
    ELSE IF ~HasArray(n) THEN Thrown
    ELSE ExtractGroups(n.children[1])

\* an extractor whose try block has no catch
extractTableDataNoCatch(n) == ExtractBody(n)

\* extractTableData(node): the try block, with catch (e) { return null }
extractTableData(n) ==
    LET r == ExtractBody(n) IN IF r.threw THEN Returned(Absent) ELSE r

\* cell texts
CtName == <<"n","a","m","e">>
CtAmount == <<"a","m","o","u","n","t">>
CtWidget == <<" ","W","i","d","g","e","t">>
CtMoney == <<"1",",","2","3","4",".","5","0">>
CtDate == <<"2","0","2","3","-","0","1">>
CtMixed == <<"1","2","3","a","b","c">>
CtPlus == <<"+","5">>
CtSci == <<"1","e","5">>
CtPadded == <<" ","-","1",",","0","0","0"," ">>
\* more digits than a finite double can hold
CtHuge == [i \in 1..(MaxDoubleExp + 2) |-> "9"]

Th(x) == Element("th", <<TextNode(x)>>)
Td(x) == Element("td", <<TextNode(x)>>)
Tr(cells) == Element("tr", cells)
Whitespace == TextNode(<<"\n">>)

\* header rows: without cells, with data cells only, with one or two header cells
\* (also of the same name), without a children array
HeaderRows ==
    { Tr(<<>>), Tr(<<Td(CtName)>>), Tr(<<Th(CtName)>>), Tr(<<Th(CtName), Th(CtAmount)>>),
      Tr(<<Th(CtName), Td(CtWidget), Th(CtName)>>), Tr(<<NonArray("th"), Th(CtAmount)>>),
      Malformed("tr"), NonArray("tr") }

Theads ==
    { Malformed("thead"), NonArray("thead"), Element("thead", <<>>),
      Element("thead", <<Whitespace, Tr(<<Th(CtName)>>)>>),
      Element("thead", <<Tr(<<Td(CtName)>>), Tr(<<Th(CtName)>>)>>),
      Element("thead", <<Tr(<<Th(CtName)>>), Tr(<<>>)>>) }
    \cup {Element("thead", <<r>>) : r \in HeaderRows}

BodyRows ==
    { Tr(<<>>), Tr(<<Td(CtWidget)>>), Tr(<<Td(CtWidget), Td(CtMoney)>>),
      Tr(<<Td(CtDate), Th(CtName), Td(CtMoney), Td(CtWidget)>>), Tr(<<Malformed("td"), NonArray("td")>>),
      Malformed("tr"), NonArray("tr") }

Tbodies ==
    { Malformed("tbody"), NonArray("tbody"), Element("tbody", <<>>), Element("tbody", <<Whitespace>>),
      Element("tbody", <<Td(CtWidget)>>),
      Element("tbody", <<Tr(<<Td(CtWidget), Td(CtMoney)>>), Whitespace, Tr(<<Td(CtDate)>>)>>) }
    \cup {Element("tbody", <<r>>) : r \in BodyRows}

\* the table nodes handed to the table renderer
Tables ==
    { Malformed("table"), NonArray("table"), Element("table", <<>>), Element("table", <<Whitespace>>) }
    \cup {Element("table", <<h>>) : h \in Theads}
    \cup {Element("table", <<b>>) : b \in Tbodies}
    \cup {Element("table", <<h, b>>) : h \in Theads, b \in Tbodies}
    \cup {Element("table", <<Whitespace, b, Whitespace, h>>) : h \in Theads, b \in Tbodies}
    \cup {Element("table", <<h, Element("tbody", <<>>), b>>) : h \in Theads, b \in Tbodies}
    \cup {Element("table", <<Element("thead", <<>>), h, b>>) : h \in Theads, b \in Tbodies}

\* the table renderer: tableInfo stays null when the call throws; DataVisualizer
\* when tableInfo is a dataset, else the fallback notice
table ==
    /\ tableShown = Unrendered
    /\ LET r == extractTableData(node)
           info == IF r.threw THEN Absent ELSE r.value
       IN  /\ tableInfo' = info
           /\ tableShown' = IF info # Absent THEN "visualizer" ELSE "fallback"
    /\ UNCHANGED <<node, execVars, codeVars, outcomeVars, restVars>>

----------------------------------------------------------------------------
(* DataVisualizer (frontend/components/DataVisualizer.tsx).                *)

\* Number(s) of a string: the whole trimmed text must be a decimal literal;
\* the empty text is 0. (The texts here hold no 0x, 0o or 0b prefix.)
StringToNumber(s) ==
    LET t == trim(s)
        signed == t # <<>> /\ t[1] \in {"-", "+"}
        neg == t # <<>> /\ t[1] = "-"
        u == IF signed THEN Tail(t) ELSE t
        ip == DigitRun(u, 1)
        dot == Len(ip) + 1
        hasDot == dot <= Len(u) /\ u[dot] = "."
        fp == IF hasDot THEN DigitRun(u, dot + 1) ELSE <<>>
        e == IF hasDot THEN dot + 1 + Len(fp) ELSE dot
        hasE == e <= Len(u) /\ u[e] \in {"e", "E"}
        eSigned == hasE /\ e + 1 <= Len(u) /\ u[e + 1] \in {"-", "+"}
        eStart == IF eSigned THEN e + 2 ELSE e + 1
        eDigits == IF hasE THEN DigitRun(u, eStart) ELSE <<>>
        eVal == IF eSigned /\ u[e + 1] = "-" THEN 0 - NatOf(eDigits) ELSE NatOf(eDigits)
        end == IF hasE THEN eStart + Len(eDigits) ELSE e
    IN  IF t = <<>> THEN Finite(FALSE, <<>>, 0)
        ELSE IF u = KwInfinity THEN Infinity(neg)
        ELSE IF (ip = <<>> /\ fp = <<>>) \/ (hasE /\ eDigits = <<>>) \/ end # Len(u) + 1 THEN NaN
        ELSE Finite(neg, ip \o fp, eVal - Len(fp))

\* n copies of the character c
Repeat(c, n) == [i \in 1..n |-> c]

\* the decimal digits of a natural number
RECURSIVE NatToString(_)
NatToString(n) ==
    IF n < 10 THEN <<DigitSeq[n + 1]>> ELSE NatToString(n \div 10) \o <<DigitSeq[(n % 10) + 1]>>

\* Number.prototype.toString of a finite number, NaN or an infinity
NumberToString(num) ==
    LET d == num.digits
        k == Len(d)
        n == k + num.exp
        sign == IF num.neg THEN <<"-">> ELSE <<>>
        mantissa == IF k = 1 THEN d ELSE <<d[1]>> \o <<".">> \o Tail(d)
    IN  IF num.kind = "nan" THEN <<"N","a","N">>
        ELSE IF num.kind = "inf" THEN sign \o KwInfinity
        ELSE IF k = 0 THEN <<"0">>
        ELSE IF k <= n /\ n <= 21 THEN sign \o d \o Repeat("0", n - k)
        ELSE IF 0 < n /\ n <= 21 THEN sign \o SubSeq(d, 1, n) \o <<".">> \o SubSeq(d, n + 1, k)
        ELSE IF 0 - 6 < n /\ n <= 0 THEN sign \o <<"0", ".">> \o Repeat("0", 0 - n) \o d
        ELSE IF n > 0 THEN sign \o mantissa \o <<"e", "+">> \o NatToString(n - 1)
        ELSE sign \o mantissa \o <<"e", "-">> \o NatToString(1 - n)

KwUndefined == <<"u","n","d","e","f","i","n","e","d">>

\* undefined, a value apart from every number and every string
Undefined == [isNumber |-> FALSE, num |-> Infinity(FALSE), str |-> <<>>]

\* row[h]: the value under key h, or undefined
Get(row, h) == IF h \in DOMAIN row THEN row[h] ELSE Undefined

\* String(val), as in parseFloat(val) and in a template literal
StringOf(val) ==
    IF val = Undefined THEN KwUndefined
    ELSE IF val.isNumber THEN NumberToString(val.num)
    ELSE val.str

\* the number isFinite(val) tests
ToNumber(val) ==
    IF val = Undefined THEN NaN
    ELSE IF val.isNumber THEN val.num
    ELSE StringToNumber(val.str)

\* !isNaN(parseFloat(val)) && isFinite(val)
IsNumericValue(val) ==
    parseFloat(StringOf(val)).kind # "nan" /\ ToNumber(val).kind = "finite"

\* data[0]?.[h]
FirstRowValue(data, h) == IF data = <<>> THEN Undefined ELSE Get(data[1], h)

\* an inference that asks every row for a numeric value
NumericKeysEveryRow(headers, data) ==
    SelectSeq(headers, LAMBDA h : \A i \in DOMAIN data : IsNumericValue(Get(data[i], h)))

\* headers.filter(h => ...): the headers whose first-row value is numeric
NumericKeysOf(headers, data) ==
    SelectSeq(headers, LAMBDA h : IsNumericValue(FirstRowValue(data, h)))

\* x || y for strings that may be undefined: the empty string is falsy
OrString(x, y) == IF x # Absent /\ x[1] # <<>> THEN x ELSE y

\* headers[i], or undefined
At(headers, i) == IF i \in DOMAIN headers THEN Some(headers[i]) ELSE Absent

\* headers.find(h => !numericKeys.includes(h))
FirstNonNumeric(headers, keys) ==
    IF \E i \in DOMAIN headers : headers[i] \notin Range(keys)
    THEN Some(headers[CHOOSE i \in DOMAIN headers :
                         /\ headers[i] \notin Range(keys)
                         /\ \A j \in 1..(i - 1) : headers[j] \in Range(keys)])
    ELSE Absent

\* labelKey = headers.find(h => !numericKeys.includes(h)) || headers[0]
LabelKey(headers, keys) == OrString(FirstNonNumeric(headers, keys), At(headers, 1))

\* valueKey = numericKeys[0] || headers[1]
ValueKey(headers, keys) == OrString(At(keys, 1), At(headers, 2))

\* array.join(sep) of strings
RECURSIVE Join(_, _)
Join(ss, sep) ==
    IF ss = <<>> THEN <<>>
    ELSE IF Len(ss) = 1 THEN ss[1]
    ELSE ss[1] \o sep \o Join(Tail(ss), sep)

\* the text handleDownload builds
CsvContent(headers, data) ==
    Join(<<Join(headers, <<",">>)>>
         \o [i \in DOMAIN data |->
                Join([j \in DOMAIN headers |->
                         <<"\"">> \o StringOf(Get(data[i], headers[j])) \o <<"\"">>],
                     <<",">>)],
         <<"\n">>)

\* the largest number of rows of a sample dataset
MaxRows == 2

CtComma == <<"a",",","b">>
CtLines == <<"a","\n","b">>

Num1234p5 == [kind |-> "finite", neg |-> FALSE, digits |-> <<"1","2","3","4","5">>, exp |-> 0 - 1]

VizValues ==
    { NumberValue(Num1234p5), StringValue(CtDate), StringValue(CtSci),
      StringValue(CtComma), StringValue(CtLines) }

VizHeaders ==
    { <<CtName>>, <<CtName, CtAmount>>, <<CtName, CtName>>, <<CtComma, CtName>>, <<CtName, <<>>>> }

\* rows over the headers hs, each key present with a value or missing
VizRows(hs) ==
    UNION {[ks -> VizValues] : ks \in SUBSET Range(hs)}

Datasets ==
    UNION {[headers : {hs}, data : UNION {[1..n -> VizRows(hs)] : n \in 0..MaxRows}] :
           hs \in VizHeaders}

\* the first render, and every later one: the numeric keys of the props
DataVisualizer ==
    /\ numericKeys = Absent
    /\ numericKeys' = Some(NumericKeysOf(props.headers, props.data))
    /\ UNCHANGED <<props, viewMode, csvContent, besidesViz>>

\* the toolbar is rendered: the component has rendered and data is not empty
ToolbarShown == numericKeys # Absent /\ props.data # <<>>

\* a scheme that offers every button whatever the keys
ViewButtonsAll == IF ~ToolbarShown THEN {} ELSE {"table", "bar", "pie"}

\* the view buttons on the toolbar: bar and pie only with a numeric key
ViewButtons ==
    IF ~ToolbarShown THEN {}
    ELSE IF Len(numericKeys[1]) > 0 THEN {"table", "bar", "pie"}
    ELSE {"table"}

\* a press of a view button: setViewMode(m)
setViewMode(m) ==
    /\ m \in ViewButtons
    /\ viewMode' = m
    /\ UNCHANGED <<props, numericKeys, csvContent, besidesViz>>

\* a press of Download CSV
handleDownload ==
    /\ ToolbarShown
    /\ csvContent' = Some(CsvContent(props.headers, props.data))
    /\ UNCHANGED <<props, viewMode, numericKeys, besidesViz>>

IdleViz ==
    /\ props = [headers |-> <<>>, data |-> <<>>]
    /\ viewMode = "table"
    /\ numericKeys = Absent
    /\ csvContent = Absent

InitViz ==
    /\ props \in Datasets
    /\ viewMode = "table"
    /\ numericKeys = Absent
    /\ csvContent = Absent

----------------------------------------------------------------------------
(* SqlRenderer: the complexity label (ComplexityScorer).                   *)

\* String.prototype.includes
includes(s, sub) ==
    \E i \in 1..(Len(s) - Len(sub) + 1) : SubSeq(s, i, i + Len(sub) - 1) = sub

KwJoin == <<"J","O","I","N">>
KwGroupBy == <<"G","R","O","U","P"," ","B","Y">>
KwHaving == <<"H","A","V","I","N","G">>
KwUnion == <<"U","N","I","O","N">>
KwWhere == <<"W","H","E","R","E">>

\* the score of the useMemo
Score(c) ==
    LET upper == toUpperCase(c)
    IN  (IF includes(upper, KwJoin) THEN 2 ELSE 0)
        + (IF includes(upper, KwGroupBy) THEN 1 ELSE 0)
        + (IF includes(upper, KwHaving) THEN 2 ELSE 0)
        + (IF includes(upper, KwWith) THEN 2 ELSE 0)
        + (IF includes(upper, KwUnion) THEN 2 ELSE 0)
        + (IF includes(upper, KwSelect) /\ includes(upper, KwWhere) THEN 1 ELSE 0)

\* a labelling whose comparisons include the thresholds
ComplexityInclusive(c) ==
    IF Score(c) <= 3 THEN "Simple Query"
    ELSE IF Score(c) <= 6 THEN "Intermediate Query"
    ELSE "Complex Analysis"

\* the label of the useMemo
Complexity(c) ==
    IF Score(c) < 3 THEN "Simple Query"
    ELSE IF Score(c) < 6 THEN "Intermediate Query"
    ELSE "Complex Analysis"

\* the largest number of words of a sample SQL text
MaxWords == 3

SqlWords ==
    { <<"s","e","l","e","c","t">>, <<"J","o","i","n">>, <<"G","R","O","U","P">>, <<"b","y">>,
      <<"h","a","v","i","n","g">>, <<"w","i","t","h","i","n">>, <<"U","n","i","o","n">>,
      <<"W","H","E","R","E">>, <<"t">> }

\* "SELECT * FROM t"
SqlPlain == <<"S","E","L","E","C","T"," ","*"," ","F","R","O","M"," ","t">>
\* JOIN, GROUP BY and HAVING
SqlFive == SqlPlain \o <<" ">> \o KwJoin \o <<" ">> \o KwGroupBy \o <<" ">> \o KwHaving
\* the same in a WITH wrapper
SqlSeven == KwWith \o <<" ">> \o SqlFive
\* every keyword
SqlTen == SqlSeven \o <<" ">> \o KwWhere \o <<" ">> \o KwUnion

SqlTexts ==
    {Join(ws, <<" ">>) : ws \in UNION {[1..n -> SqlWords] : n \in 0..MaxWords}}
    \cup {SqlPlain, SqlFive, SqlSeven, SqlTen}

\* the render of SqlRenderer: the useMemo computes the label of code
SqlRenderer ==
    /\ complexity = Unrendered
    /\ complexity' = Complexity(sqlCode)
    /\ UNCHANGED <<sqlCode, besidesScore>>

IdleScore ==
    /\ sqlCode = <<>>
    /\ complexity = Unrendered

InitScore ==
    /\ sqlCode \in SqlTexts
    /\ complexity = Unrendered

----------------------------------------------------------------------------
(* App (frontend/src/App.tsx) and generateSqlAnalysis.                     *)
(* Texts that are only copied are sequences of whole pieces of text.       *)

Raise(e) == [threw |-> TRUE, value |-> e]

WelcomeText == <<"Hello! I'm your **SQL Analyst AI**. ...">>
FallbackText == <<"I could not generate a response. Please check your inputs.">>
ErrorPrefix ==
    <<"Error connecting to backend API. Please ensure the server is running at http://localhost:8000. Error: ">>
ApiRequestFailed == <<"API request failed">>
FetchFailed == <<"TypeError: Failed to fetch">>
JsonSyntaxError == <<"SyntaxError: Unexpected token < in JSON">>
NullTypeError == <<"TypeError: Cannot read properties of null">>

AnswerText == <<"Here is the query: SELECT 1">>
DetailText == <<"model unavailable">>

\* what response.json() gives: a rejection (valid = FALSE), null, or an object
\* with or without content and detail
ChatBodies ==
    [valid : {FALSE}, null : {FALSE}, content : {Absent}, detail : {Absent}]
    \cup [valid : {TRUE}, null : {TRUE}, content : {Absent}, detail : {Absent}]
    \cup [valid : {TRUE}, null : {FALSE},
          content : {Absent, Some(<<>>), Some(AnswerText)},
          detail : {Absent, Some(DetailText)}]

\* what the network does with one completion request
ChatOutcomes ==
    [fetch : {"rejected"}, ok : {FALSE}, body : {[valid |-> FALSE, null |-> FALSE,
                                                  content |-> Absent, detail |-> Absent]}]
    \cup [fetch : {"resolved"}, ok : BOOLEAN, body : ChatBodies]

\* x || otherwise, for a text that may be missing or empty
OrElse(x, otherwise) == IF x # Absent /\ x[1] # <<>> THEN x[1] ELSE otherwise

\* the try block of generateSqlAnalysis: what it returns, or the error it throws
AnalysisBody(net) ==
    IF net.fetch = "rejected" THEN Raise(FetchFailed)
    ELSE IF ~net.body.valid THEN Raise(JsonSyntaxError)
    ELSE IF net.body.null THEN Raise(NullTypeError)
    ELSE IF ~net.ok THEN Raise(<<"Error: ">> \o OrElse(net.body.detail, ApiRequestFailed))
    ELSE Returned(OrElse(net.body.content, FallbackText))

\* an analysis whose try block has no catch
generateSqlAnalysisNoCatch(net) == AnalysisBody(net)

\* generateSqlAnalysis: the try block, with catch (error) { return `Error connecting ...` }
generateSqlAnalysis(net) ==
    LET r == AnalysisBody(net)
    IN  IF r.threw THEN Returned(ErrorPrefix \o r.value) ELSE r

\* the largest number of submits taken up
MaxSubmits == 2

InBlank == <<" ", " ">>
InQuestion == <<"s","a","l","e","s">>
InPadded == <<" ","t","o","p"," ">>

Inputs == {<<>>, InBlank, InQuestion, InPadded}

KwWelcome == <<"w","e","l","c","o","m","e">>

Welcome == [id |-> KwWelcome, role |-> "assistant", content |-> WelcomeText]

\* the largest value of the clock
MaxClock == 1

\* time passes
Tick ==
    /\ now < MaxClock
    /\ now' = now + 1
    /\ UNCHANGED <<messages, input, isLoading, pending, answered, besidesApp>>

\* an updater that puts the new message first
AddMessageFirst(prev, m) == <<m>> \o prev

\* the updater (prev) => [...prev, m]
AddMessage(prev, m) == Append(prev, m)

\* the user types: onChange={(e) => setInput(e.target.value)}, the field being
\* disabled while isLoading
setInput(text) ==
    /\ ~isLoading
    /\ input' = text
    /\ UNCHANGED <<messages, isLoading, pending, answered, now, besidesApp>>

\* the messages of the transcript with role user
UserMessages == SelectSeq(messages, LAMBDA m : m.role = "user")

\* a handleSubmit without its first line
handleSubmitNoGuard ==
    /\ Len(UserMessages) < MaxSubmits
    /\ messages' = AddMessage(messages, [id |-> NatToString(now), role |-> "user", content |-> input])
    /\ input' = <<>>
    /\ isLoading' = TRUE
    /\ pending' = Some(input)
    /\ UNCHANGED <<answered, now, besidesApp>>

\* handleSubmit up to its await
handleSubmit ==
    /\ Len(UserMessages) < MaxSubmits
    /\ IF trim(input) = <<>> \/ isLoading
       THEN UNCHANGED <<messages, input, isLoading, pending>>
       ELSE /\ messages' = AddMessage(messages, [id |-> NatToString(now), role |-> "user",
                                                 content |-> input])
            /\ input' = <<>>
            /\ isLoading' = TRUE
            /\ pending' = Some(input)
    /\ UNCHANGED <<answered, now, besidesApp>>

\* handleSubmit after its await: the call has settled with what net gave
Complete(net) ==
    /\ pending # Absent
    /\ pending' = Absent
    /\ answered' = Append(answered, net)
    /\ IF generateSqlAnalysis(net).threw
       THEN UNCHANGED <<messages, isLoading>>
       ELSE /\ messages' = AddMessage(messages, [id |-> NatToString(now + 1), role |-> "assistant",
                                                 content |-> generateSqlAnalysis(net).value])
            /\ isLoading' = FALSE
    /\ UNCHANGED <<input, now, besidesApp>>

IdleApp ==
    /\ messages = <<Welcome>>
    /\ input = <<>>
    /\ isLoading = FALSE
    /\ pending = Absent
    /\ answered = <<>>
    /\ now = 0

----------------------------------------------------------------------------
(* MermaidRenderer: the effect that renders the diagram.                   *)

\* the largest number of effect runs of one MermaidRenderer
MaxRenders == 3

TxtPie == <<"p","i","e">>

DiagramCodes == {<<>>, TxtGraph, TxtPie}

\* the effect body: isMounted = true; renderDiagram() awaits mermaid.render
\* unless code is empty
RunEffect(rs) ==
    /\ renders' = Append(rs, [code |-> diagramCode', isMounted |-> TRUE])
    /\ rendering' = IF diagramCode' = <<>> THEN rendering ELSE rendering \cup {Len(rs) + 1}

\* the cleanup of the latest effect run: isMounted = false
Cleanup == [renders EXCEPT ![Len(renders)].isMounted = FALSE]

\* the mount of the component
MermaidMount ==
    /\ alive = "new"
    /\ alive' = "mounted"
    /\ diagramCode' = diagramCode
    /\ RunEffect(renders)
    /\ UNCHANGED <<svg, error, settled, besidesMermaid>>

\* a render with another code, or the second run of the effect in Strict
\* Mode: cleanup, then the effect again
MermaidRerun(c) ==
    /\ alive = "mounted"
    /\ Len(renders) < MaxRenders
    /\ diagramCode' = c
    /\ RunEffect(Cleanup)
    /\ UNCHANGED <<alive, svg, error, settled, besidesMermaid>>

\* the teardown of the component: cleanup
MermaidUnmount ==
    /\ alive = "mounted"
    /\ alive' = "torn"
    /\ renders' = Cleanup
    /\ UNCHANGED <<diagramCode, svg, error, rendering, settled, besidesMermaid>>

\* a check that lets every render commit
IsMountedAlways(i) == TRUE

\* if (isMounted), as the closure of effect run i sees it
IsMounted(i) == renders[i].isMounted

\* mermaid.render of effect run i settles: ok = it gave an svg, else it threw
RenderSettles(i, ok) ==
    /\ i \in rendering
    /\ rendering' = rendering \ {i}
    /\ settled' = Append(settled, i)
    /\ IF ~IsMounted(i) THEN UNCHANGED <<svg, error>>
       ELSE IF ok
       THEN /\ svg' = Some([by |-> i, code |-> renders[i].code])
            /\ error' = Absent
       ELSE /\ error' = Some([by |-> i, code |-> renders[i].code])
            /\ UNCHANGED svg
    /\ UNCHANGED <<diagramCode, alive, renders, besidesMermaid>>

IdleMermaid ==
    /\ diagramCode = <<>>
    /\ alive = "new"
    /\ svg = Absent
    /\ error = Absent
    /\ renders = <<>>
    /\ rendering = {}
    /\ settled = <<>>

InitMermaid ==
    /\ diagramCode \in DiagramCodes
    /\ alive = "new"
    /\ svg = Absent
    /\ error = Absent
    /\ renders = <<>>
    /\ rendering = {}
    /\ settled = <<>>

----------------------------------------------------------------------------
(* Several ChatMessage instances: App renders messages.map(msg =>          *)
(* <ChatMessage key={msg.id} .../>), every instance with its own useState  *)
(* and useRef cells and all with the dbContext of App.                     *)

\* the ids of the messages rendered
MsgIds == {"m1", "m2"}

\* the most executeQuery calls one instance issues in a behaviour
MaxPairRuns == 2

\* the messages rendered
PairMessages ==
    { [role |-> "user", content |-> <<Block(TagSql, TxtSelect)>>],
      [role |-> "assistant", content |-> <<Block(TagSql, TxtSelect)>>],
      [role |-> "assistant", content |-> <<Block(TagSql, TxtDrop), Block(TagSql, TxtWith)>>] }

\* what the network answers to the calls of the instances
PairOutcomes ==
    { [fetch |-> "rejected", json |-> Absent],
      [fetch |-> "ok", json |-> Some([success |-> Some(TRUE), columns |-> Some(<<"id">>),
                                      rows |-> Some(<<1>>), error |-> Absent])] }

\* the cells of a new instance for message m
NewInstance(m) ==
    [message |-> m, mounted |-> FALSE, isExecuting |-> FALSE, executionResult |-> Absent,
     hasAutoRun |-> FALSE, calls |-> <<>>, inflight |-> {}]

\* a setter that writes the cells of every instance
SetStateShared(all, id, st) == [j \in DOMAIN all |-> st]

\* the setters and the ref of an instance write the cells of that instance
SetState(all, id, st) == [all EXCEPT ![id] = st]

\* handleRunQuery(sql) up to its await, on the cells st of one instance
RunQueryIn(st, ctx, sql, origin) ==
    IF ctx = NoCtx THEN st
    ELSE [st EXCEPT !.isExecuting = TRUE,
                    !.executionResult = Absent,
                    !.calls = Append(@, [sql |-> sql, origin |-> origin]),
                    !.inflight = @ \cup {Len(st.calls) + 1}]

\* the auto-run effect of one instance once the match is known
AutoRunWith(st, ctx, m) ==
    IF /\ ctx # NoCtx
       /\ ~st.hasAutoRun
       /\ st.message.role = "assistant"
       /\ m.found
       /\ m.group # <<>>
       /\ SafetyGate(trim(m.group))
    THEN RunQueryIn([st EXCEPT !.hasAutoRun = TRUE], ctx, trim(m.group), "auto")
    ELSE st

\* the auto-run effect, on the cells st of one instance
AutoRunIn(st, ctx) == AutoRunWith(st, ctx, sqlMatch(st.message.content))

\* the rest of handleRunQuery for call i, on the cells st of one instance
RespondIn(st, i, net) ==
    [st EXCEPT !.executionResult = Some([run |-> i] @@ Completion(executeQuery(net))),
               !.isExecuting = FALSE,
               !.inflight = @ \ {i}]

\* the blocks of instance id under which a Run Query button is rendered
PairRunButtons(id) ==
    {b \in DOMAIN instances[id].message.content :
        /\ dbContext # NoCtx
        /\ code(ClassNameOf(instances[id].message.content[b].tag),
                ChildrenOf(instances[id].message.content[b].text)).kind = "sql"}

\* first render of instance id: its effect runs
PairMount(id) ==
    /\ ~instances[id].mounted
    /\ instances' = SetState(instances, id,
                             AutoRunIn([instances[id] EXCEPT !.mounted = TRUE], dbContext))
    /\ current' = Some(id)
    /\ UNCHANGED <<execVars, besidesPair>>

\* a click on the Run Query button of block b of instance id
PairManualRun(id, b) ==
    /\ instances[id].mounted
    /\ Len(instances[id].calls) < MaxPairRuns
    /\ b \in PairRunButtons(id)
    /\ instances' = SetState(instances, id,
                             RunQueryIn(instances[id], dbContext,
                                        code(ClassNameOf(instances[id].message.content[b].tag),
                                             ChildrenOf(instances[id].message.content[b].text)).codeText,
                                        "manual"))
    /\ current' = Some(id)
    /\ UNCHANGED <<execVars, besidesPair>>

\* the promise of call i of instance id settles
PairRespond(id, i, net) ==
    /\ i \in instances[id].inflight
    /\ instances' = SetState(instances, id, RespondIn(instances[id], i, net))
    /\ current' = Some(id)
    /\ UNCHANGED <<execVars, besidesPair>>

IdlePair ==
    /\ instances = [id \in MsgIds |-> NewInstance([role |-> "user", content |-> <<>>])]
    /\ current = Absent

InitPair ==
    /\ \E ms \in [MsgIds -> PairMessages] : instances = [id \in MsgIds |-> NewInstance(ms[id])]
    /\ current = Absent

IdleRest == IdleViz /\ IdleScore /\ IdleApp /\ IdleMermaid /\ IdlePair

InitExec ==
    /\ message \in Messages
    /\ dbContext \in {NoCtx} \cup Contexts
    /\ mounted = FALSE
    /\ isExecuting = FALSE
    /\ executionResult = Absent
    /\ hasAutoRun = FALSE
    /\ calls = <<>>
    /\ inflight = {}

IdleCode ==
    /\ className = NoClass
    /\ children = <<>>
    /\ kind = Unrendered

IdleTable ==
    /\ node = Malformed("table")
    /\ tableInfo = Absent
    /\ tableShown = Unrendered

IdleExec ==
    /\ message = [role |-> "user", content |-> <<>>]
    /\ dbContext = NoCtx
    /\ mounted = FALSE
    /\ isExecuting = FALSE
    /\ executionResult = Absent
    /\ hasAutoRun = FALSE
    /\ calls = <<>>
    /\ inflight = {}

InitCode ==
    /\ \E t \in Tags : className = ClassNameOf(t)
    /\ \E x \in Texts : children = ChildrenOf(x)
    /\ kind = Unrendered

InitTable ==
    /\ node \in Tables
    /\ tableInfo = Absent
    /\ tableShown = Unrendered

IdleOutcome ==
    /\ response = [fetch |-> "rejected", json |-> Absent]
    /\ stored = Absent

InitOutcome ==
    /\ response \in NetOutcomes
    /\ stored = Absent

IdlePipeline == IdleExec /\ IdleCode /\ IdleTable /\ IdleOutcome

Init == InitExec /\ IdleCode /\ IdleTable /\ IdleOutcome /\ IdleRest

Next ==
    \/ Mount
    \/ Refire
    \/ \E c \in {NoCtx} \cup Contexts : SetDbContext(c)
    \/ \E b \in DOMAIN message.content : ManualRun(b)
    \/ \E i \in 1..MaxRuns, net \in NetOutcomes : Respond(i, net)

Spec == Init /\ [][Next]_vars

\* one answer of each kind: fetch rejects, the body is null, a well-formed
\* success, a failure with a message
LiveOutcomes ==
    { [fetch |-> "rejected", json |-> Absent],
      [fetch |-> "ok", json |-> Absent],
      [fetch |-> "ok", json |-> Some([success |-> Some(TRUE), columns |-> Some(<<"id">>),
                                      rows |-> Some(<<1>>), error |-> Absent])],
      [fetch |-> "ok", json |-> Some([success |-> Some(FALSE), columns |-> Absent,
                                      rows |-> Absent, error |-> Some("relation t does not exist")])] }

NextLive ==
    \/ Mount
    \/ Refire
    \/ \E c \in {NoCtx} \cup Contexts : SetDbContext(c)
    \/ \E b \in DOMAIN message.content : ManualRun(b)
    \/ \E i \in 1..MaxRuns, net \in LiveOutcomes : Respond(i, net)

\* every executeQuery call settles: fetch resolves or rejects
SpecLive ==
    Init /\ [][NextLive]_vars
    /\ \A i \in 1..MaxRuns : WF_vars(\E net \in LiveOutcomes : Respond(i, net))

\* the code renderer alone, over the language tags and bodies
InitSpecCode == IdleExec /\ InitCode /\ IdleTable /\ IdleOutcome /\ IdleRest

NextCode == RenderCode

SpecCode == InitSpecCode /\ [][NextCode]_vars

\* the table renderer alone, over the table nodes
InitSpecTable == IdleExec /\ IdleCode /\ InitTable /\ IdleOutcome /\ IdleRest

NextTable == table

SpecTable == InitSpecTable /\ [][NextTable]_vars

\* the outcome mapping of handleRunQuery alone, over the answers of the network
InitSpecOutcome == IdleExec /\ IdleCode /\ IdleTable /\ InitOutcome /\ IdleRest

NextOutcome == Settle

SpecOutcome == InitSpecOutcome /\ [][NextOutcome]_vars

\* the longest cell text enumerated character by character
MaxCellLen == 3

CellAlphabet == {"1", "0", ",", ".", "-", "+", "e", " "}

CellTexts ==
    UNION {[1..n -> CellAlphabet] : n \in 0..MaxCellLen}
    \cup {CtMoney, CtDate, CtMixed, CtPlus, CtSci, CtPadded, CtHuge}

\* a table of one column and one body row, for every cell text
CellTables ==
    {Element("table", <<Element("thead", <<Tr(<<Th(CtName)>>)>>),
                        Element("tbody", <<Tr(<<Td(x)>>)>>)>>) : x \in CellTexts}

InitCell ==
    /\ node \in CellTables
    /\ tableInfo = Absent
    /\ tableShown = Unrendered

\* the table renderer over one-cell tables, for the coercion of cell values
InitSpecCell == IdleExec /\ IdleCode /\ InitCell /\ IdleOutcome /\ IdleRest

NextCell == table

SpecCell == InitSpecCell /\ [][NextCell]_vars

\* one DataVisualizer instance, over the datasets
InitSpecViz == IdlePipeline /\ InitViz /\ IdleScore /\ IdleApp /\ IdleMermaid /\ IdlePair

NextViz ==
    \/ DataVisualizer
    \/ \E m \in {"table", "bar", "pie"} : setViewMode(m)
    \/ handleDownload

SpecViz == InitSpecViz /\ [][NextViz]_vars

\* the complexity label alone, over the SQL texts
InitSpecScore == IdlePipeline /\ IdleViz /\ InitScore /\ IdleApp /\ IdleMermaid /\ IdlePair

NextScore == SqlRenderer

SpecScore == InitSpecScore /\ [][NextScore]_vars

\* the conversation controller: typing, submits and completions
InitSpecApp == IdlePipeline /\ IdleViz /\ IdleScore /\ IdleApp /\ IdleMermaid /\ IdlePair

NextApp ==
    \/ Tick
    \/ \E text \in Inputs : setInput(text)
    \/ handleSubmit
    \/ \E net \in ChatOutcomes : Complete(net)

\* fetch settles: every completion request is answered or fails
SpecApp == InitSpecApp /\ [][NextApp]_vars /\ WF_vars(\E net \in ChatOutcomes : Complete(net))

\* the ChatMessage instances of two messages under one dbContext
InitSpecPair ==
    /\ message = [role |-> "user", content |-> <<>>]
    /\ dbContext \in {NoCtx} \cup Contexts
    /\ mounted = FALSE
    /\ isExecuting = FALSE
    /\ executionResult = Absent
    /\ hasAutoRun = FALSE
    /\ calls = <<>>
    /\ inflight = {}
    /\ IdleCode /\ IdleTable /\ IdleOutcome
    /\ IdleViz /\ IdleScore /\ IdleApp /\ IdleMermaid
    /\ InitPair

NextPair ==
    \/ \E id \in MsgIds : PairMount(id)
    \/ \E id \in MsgIds : \E b \in DOMAIN instances[id].message.content : PairManualRun(id, b)
    \/ \E id \in MsgIds, i \in 1..MaxPairRuns, net \in PairOutcomes : PairRespond(id, i, net)

SpecPair == InitSpecPair /\ [][NextPair]_vars

\* one MermaidRenderer: mount, re-runs of the effect, teardown, settling renders
InitSpecMermaid == IdlePipeline /\ IdleViz /\ IdleScore /\ IdleApp /\ InitMermaid /\ IdlePair

NextMermaid ==
    \/ MermaidMount
    \/ \E c \in DiagramCodes : MermaidRerun(c)
    \/ MermaidUnmount
    \/ \E i \in 1..MaxRenders, ok \in BOOLEAN : RenderSettles(i, ok)

SpecMermaid == InitSpecMermaid /\ [][NextMermaid]_vars

----------------------------------------------------------------------------
(* Properties.                                                             *)

AutoCalls == {i \in DOMAIN calls : calls[i].origin = "auto"}
ManualCalls == {i \in DOMAIN calls : calls[i].origin = "manual"}

\* s starts with kw, letter case ignored
StartsWithNoCase(s, kw) ==
    /\ Len(s) >= Len(kw)
    /\ \A i \in DOMAIN kw : LowerChar(s[i]) = LowerChar(kw[i])

\* the policy of the safety gate: the trimmed text begins with SELECT or WITH
Eligible(s) ==
    StartsWithNoCase(trim(s), <<"s","e","l","e","c","t">>)
    \/ StartsWithNoCase(trim(s), <<"w","i","t","h">>)

\* the language tag of block b is sql or mongodb in any letter case
SqlTagged(b) == toLowerCase(message.content[b].tag) \in {TagSql, TagMongodb}

\* the first block in document order whose tag is sql or mongodb in any letter case, 0 if none
FirstSqlTagged ==
    IF \E b \in DOMAIN message.content : SqlTagged(b)
    THEN CHOOSE b \in DOMAIN message.content :
             SqlTagged(b) /\ \A a \in 1..(b - 1) : ~SqlTagged(a)
    ELSE 0

\* C1: once every run of a message has been answered, the result on display is
\* the one of the run issued last, whatever the order of the answers.
C1_RaceSafety ==
    (calls # <<>> /\ inflight = {}) =>
        (executionResult # Absent /\ executionResult[1].run = Len(calls))

\* C2: the auto-run effect starts at most one execution per message instance,
\* over all re-firings, changes of dbContext and manual runs.
C2_AutoRunOnce == Cardinality(AutoCalls) <= 1

\* C2 witness: the automatic run has happened, a manual run followed, and all is answered
C2_Witness ==
    /\ hasAutoRun
    /\ Cardinality(AutoCalls) = 1
    /\ ManualCalls # {}
    /\ inflight = {}

\* C3: what the automatic path sends is the (trimmed) text of the first block
\* that is rendered as sql, i.e. whose tag is sql or mongodb in any letter case;
\* no later block is sent.
C3_FirstSqlBlockOnly ==
    \A i \in AutoCalls :
        /\ FirstSqlTagged # 0
        /\ calls[i].sql = trim(message.content[FirstSqlTagged].text)

\* C4: the text the effect finds is sent automatically iff, trimmed, it begins
\* with SELECT or WITH in any letter case; nothing else is ever sent by the
\* automatic path.
C4_SafetyGate ==
    /\ \A i \in AutoCalls : Eligible(calls[i].sql)
    /\ (mounted /\ dbContext # NoCtx /\ message.role = "assistant"
            /\ sqlMatch(message.content).found)
        => (hasAutoRun <=> Eligible(sqlMatch(message.content).group))

\* C4 witness: a text with leading white space and lower-case letters was sent, trimmed
C4_Witness ==
    /\ AutoCalls # {}
    /\ sqlMatch(message.content).group = TxtSelectLower
    /\ \A i \in AutoCalls : calls[i].sql = trim(TxtSelectLower) /\ calls[i].sql # TxtSelectLower

\* C5: a step in which the automatic path issues a call is the step of an
\* assistant message, rendered with a dbContext, whose text passes the gate.
C5_TriggerPrecondition ==
    [][\A i \in DOMAIN calls' :
          (i > Len(calls) /\ calls'[i].origin = "auto") =>
              /\ message.role = "assistant"
              /\ dbContext' # NoCtx
              /\ Eligible(calls'[i].sql)]_vars

\* C5 witness: a user message with an eligible sql block, rendered with a dbContext,
\* has been run by hand and never automatically
C5_Witness ==
    /\ message.role = "user"
    /\ message.content = <<Block(TagSql, TxtSelect)>>
    /\ mounted
    /\ dbContext # NoCtx
    /\ ManualCalls # {}
    /\ AutoCalls = {}

\* the language tag behind a className
TagOf(cls) == IF cls = NoClass THEN NoTag ELSE SubSeq(cls, Len(LanguagePrefix) + 1, Len(cls))

\* C6 as stated, for the tags made of letters, digits and underscores: sql iff
\* the lower-cased tag is sql or mongodb, diagram iff the tag is mermaid, else
\* generic with a tag and plain without.
KindAsStated(t) ==
    IF toLowerCase(t) \in {TagSql, TagMongodb} THEN "sql"
    ELSE IF t = TagMermaid THEN "diagram"
    ELSE IF t # NoTag THEN "generic"
    ELSE "plain"

C6_Original ==
    (kind # Unrendered /\ \A i \in DOMAIN TagOf(className) : IsWordChar(TagOf(className)[i]))
        => kind = KindAsStated(TagOf(className))

\* the positions of "language-" + t at which "language-" is followed by a word character
WordStarts(cls) ==
    {p \in 1..Len(cls) :
        /\ p + Len(LanguagePrefix) <= Len(cls)
        /\ \A j \in DOMAIN LanguagePrefix : cls[p + j - 1] = LanguagePrefix[j]
        /\ IsWordChar(cls[p + Len(LanguagePrefix)])}

\* the word that decides: the run of word characters after the first such "language-"
DecidingWord(cls) ==
    LET p == CHOOSE q \in WordStarts(cls) : \A r \in WordStarts(cls) : q <= r
        from == p + Len(LanguagePrefix)
        to == CHOOSE k \in from..Len(cls) :
                  /\ \A j \in from..k : IsWordChar(cls[j])
                  /\ k < Len(cls) => ~IsWordChar(cls[k + 1])
    IN  SubSeq(cls, from, to)

KindAsAmended(cls) ==
    IF WordStarts(cls) = {} THEN "plain"
    ELSE IF toLowerCase(DecidingWord(cls)) \in {TagSql, TagMongodb} THEN "sql"
    ELSE IF toLowerCase(DecidingWord(cls)) = TagMermaid THEN "diagram"
    ELSE "generic"

\* C6: the kind is decided by the first run of word characters after "language-"
\* in the class name (the tag itself when it is made of word characters):
\* sql iff that word, lower-cased, is sql or mongodb, diagram iff it is mermaid,
\* else generic, and plain when there is no such word; never by the body.
C6_Classifier == kind # Unrendered => kind = KindAsAmended(className)

\* C6 witness: an upper-case MERMAID block with a SQL body is rendered as a diagram
C6_Witness ==
    /\ kind = "diagram"
    /\ TagOf(className) = <<"M","E","R","M","A","I","D">>
    /\ children = ChildrenOf(TxtSelect)

\* C7 as stated: at most one unanswered executeQuery call per message.
C7_Original == Cardinality(inflight) <= 1

\* C7: at most one call of the automatic path is unanswered; manual runs are
\* not blocked while a run is in flight, so the unanswered calls are at most
\* that one and one per manual run.
C7_AutoInFlightOnce ==
    /\ Cardinality(inflight \cap AutoCalls) <= 1
    /\ inflight \subseteq DOMAIN calls
    /\ Cardinality(inflight) <= 1 + Cardinality(ManualCalls)

\* C7 witness: the automatic run and a manual run are unanswered together
C7_Witness ==
    /\ inflight \cap AutoCalls # {}
    /\ inflight \cap ManualCalls # {}

\* C8: with a dbContext a Run Query click is possible on every sql-tagged
\* block, whatever its text and whatever ran before, and every click sets
\* isExecuting, clears executionResult and sends the text of that block.
C8_ManualRun ==
    [][/\ \A b \in DOMAIN message.content :
             (mounted /\ dbContext # NoCtx /\ SqlTagged(b) /\ Len(calls) < MaxRuns)
                 => RunClickable(b)
       /\ \A i \in DOMAIN calls' :
             (i > Len(calls) /\ calls'[i].origin = "manual") =>
                 /\ isExecuting'
                 /\ executionResult' = Absent
                 /\ i \in inflight'
                 /\ \E b \in DOMAIN message.content :
                       SqlTagged(b) /\ calls'[i].sql = message.content[b].text]_vars

\* C8 witness: after the automatic run, a DROP block was run by hand twice and is executing
C8_Witness ==
    /\ hasAutoRun
    /\ \E i, j \in ManualCalls : i < j /\ calls[i].sql = TxtDrop /\ calls[j].sql = TxtDrop
    /\ isExecuting
    /\ executionResult = Absent

\* the message a backend response carries, if it carries one
BackendMessage ==
    IF response.fetch = "ok" /\ response.json # Absent
          /\ response.json[1].error # Absent /\ response.json[1].error # Some("")
    THEN response.json[1].error
    ELSE Absent

\* the response reports success and carries columns and rows
WellFormedSuccess ==
    /\ response.fetch = "ok"
    /\ response.json # Absent
    /\ response.json[1].success = Some(TRUE)
    /\ response.json[1].columns # Absent
    /\ response.json[1].rows # Absent

\* the messages made up on the client
FallbackMessages ==
    { Some("Unknown error occurred"),
      Some("Query execution failed: TypeError: Failed to fetch"),
      Some("TypeError: Cannot read properties of null") }

\* C9: a settled run stores headers = columns, data = rows and no error iff the
\* response reports success with columns and rows; otherwise it stores empty
\* headers and data with an error message, the backend's when it gave one and
\* a fallback otherwise.
C9_OutcomeMapping ==
    stored # Absent =>
        IF WellFormedSuccess
        THEN stored[1] = [headers |-> response.json[1].columns[1],
                          data |-> response.json[1].rows[1], error |-> Absent]
        ELSE /\ stored[1].headers = <<>>
             /\ stored[1].data = <<>>
             /\ stored[1].error # Absent
             /\ IF BackendMessage # Absent THEN stored[1].error = BackendMessage
                ELSE stored[1].error \in FallbackMessages

\* C9 witness: success true with rows but no columns and an error payload: failed, backend message
C9_Witness ==
    /\ stored # Absent
    /\ response.fetch = "ok" /\ response.json # Absent
    /\ response.json[1].success = Some(TRUE)
    /\ response.json[1].columns = Absent
    /\ response.json[1].rows # Absent
    /\ stored[1].error = Some("relation t does not exist")

\* the children array of a node, empty when it has none
Kids(n) == IF HasArray(n) THEN n.children[1] ELSE <<>>

\* the children of n with the given tag, in order
Tagged(n, tag) == SelectSeq(Kids(n), LAMBDA c : c.type = "element" /\ c.tagName = tag)

\* every element of the table down to the rows has a children array
RECURSIVE WellFormed(_, _)
WellFormed(n, depth) ==
    n.type = "text"
    \/ /\ HasArray(n)
       /\ depth > 0 => \A i \in DOMAIN n.children[1] : WellFormed(n.children[1][i], depth - 1)

\* C10 as stated: a dataset iff some header-group has a row with a header cell
\* and some body-group has a row.
DatasetAsStated(n) ==
    /\ \E i \in DOMAIN Tagged(n, "thead") :
          \E j \in DOMAIN Tagged(Tagged(n, "thead")[i], "tr") :
              Tagged(Tagged(Tagged(n, "thead")[i], "tr")[j], "th") # <<>>
    /\ \E i \in DOMAIN Tagged(n, "tbody") : Tagged(Tagged(n, "tbody")[i], "tr") # <<>>

C10_Original ==
    (tableShown # Unrendered /\ WellFormed(node, 2)) =>
        (tableInfo # Absent <=> DatasetAsStated(node))

\* C10 as amended: the first header-group's first row has a header cell, the
\* first body-group has a row, and the header row, that body-group and its rows
\* all have a children array.
DatasetAsAmended(n) ==
    /\ Tagged(n, "thead") # <<>>
    /\ Tagged(Tagged(n, "thead")[1], "tr") # <<>>
    /\ HasArray(Tagged(Tagged(n, "thead")[1], "tr")[1])
    /\ Tagged(Tagged(Tagged(n, "thead")[1], "tr")[1], "th") # <<>>
    /\ Tagged(n, "tbody") # <<>>
    /\ HasArray(Tagged(n, "tbody")[1])
    /\ Tagged(Tagged(n, "tbody")[1], "tr") # <<>>
    /\ \A j \in DOMAIN Tagged(Tagged(n, "tbody")[1], "tr") :
          HasArray(Tagged(Tagged(n, "tbody")[1], "tr")[j])

\* C10: extractTableData returns a dataset iff the first thead child of the
\* root has a first row with at least one header cell and the first tbody
\* child contributes at least one row (none of them lacking its children
\* array); otherwise it returns none and the fallback notice is rendered.
C10_ExtractDataset ==
    tableShown # Unrendered =>
        /\ tableInfo # Absent <=> DatasetAsAmended(node)
        /\ tableShown = IF DatasetAsAmended(node) THEN "visualizer" ELSE "fallback"

\* C10 witness: a header row of two cells and two body rows give a dataset of two records
C10_Witness ==
    /\ tableShown = "visualizer"
    /\ tableInfo # Absent
    /\ Len(tableInfo[1].headers) = 2
    /\ Len(tableInfo[1].data) = 2

\* the body rows the extractor reads: the tr children of the first tbody
SourceRows(n) == Tagged(Tagged(n, "tbody")[1], "tr")

\* C11: every record of a returned dataset has exactly the header set as its
\* keys, and a header whose cell is missing from the body row is present in
\* the record with the empty string as value.
C11_RecordKeys ==
    tableInfo # Absent =>
        \A i \in DOMAIN tableInfo[1].data :
            /\ DOMAIN tableInfo[1].data[i] = Range(tableInfo[1].headers)
            /\ \A k \in DOMAIN tableInfo[1].headers :
                  (k > Len(Tagged(SourceRows(node)[i], "td"))
                   /\ \A j \in 1..(k - 1) : tableInfo[1].headers[j] # tableInfo[1].headers[k])
                      => tableInfo[1].data[i][tableInfo[1].headers[k]] = StringValue(<<>>)

\* the text of the only body cell of a one-cell table, trimmed
CellText(n) == trim(getText(Tagged(SourceRows(n)[1], "td")[1]))

\* optional leading minus, one or more digits or commas, optionally a decimal
\* point followed by one or more digits, and nothing else
PatternAsStated(s) ==
    \E m \in 0..1, n \in 1..Len(s), f \in 0..Len(s) :
        /\ m + n + f = Len(s)
        /\ m = 1 => s[1] = "-"
        /\ \A j \in (m + 1)..(m + n) : s[j] \in Digits \cup {","}
        /\ f > 0 => /\ f >= 2
                    /\ s[m + n + 1] = "."
                    /\ \A j \in (m + n + 2)..Len(s) : s[j] \in Digits

\* the decimal number a text of that pattern denotes once its commas are removed
NumberAsStated(s) ==
    LET dot == IF \E j \in DOMAIN s : s[j] = "."
               THEN CHOOSE j \in DOMAIN s : s[j] = "." ELSE Len(s) + 1
    IN  Finite(s[1] = "-", SelectSeq(s, LAMBDA c : c \in Digits), IF dot > Len(s) THEN 0 ELSE 0 - (Len(s) - dot))

ValueAsStated(s) ==
    IF /\ PatternAsStated(s)
       /\ \E j \in DOMAIN s : s[j] \in Digits
       /\ NumberAsStated(s).kind = "finite"
    THEN NumberValue(NumberAsStated(s))
    ELSE StringValue(s)

\* C12: a cell's trimmed text is stored as a number iff the whole text matches
\* the pattern and, commas removed, parses to a finite number; otherwise the
\* trimmed text is stored unchanged as a string. "2023-01", "123abc", "+5" and
\* "1e5" stay strings.
C12_NumericCoercion ==
    tableShown # Unrendered =>
        /\ tableInfo # Absent
        /\ tableInfo[1].data[1][CtName] = ValueAsStated(CellText(node))
        /\ CellText(node) \in {CtDate, CtMixed, CtPlus, CtSci}
               => tableInfo[1].data[1][CtName] = StringValue(CellText(node))

\* C12 witness: "1,234.50" is stored as the number 1234.5
C12_Witness ==
    /\ tableShown = "visualizer"
    /\ CellText(node) = CtMoney
    /\ tableInfo[1].data[1][CtName] =
           NumberValue([kind |-> "finite", neg |-> FALSE,
                        digits |-> <<"1","2","3","4","5">>, exp |-> 0 - 1])

\* C13: for every table node, malformed ones included, extractTableData
\* returns a dataset or none and throws nothing, and the table renderer then
\* shows the visualizer for a dataset and the fallback notice for none.
C13_NoEscape ==
    /\ ~extractTableData(node).threw
    /\ tableShown # Unrendered =>
          /\ tableInfo = extractTableData(node).value
          /\ tableShown = IF tableInfo # Absent THEN "visualizer" ELSE "fallback"
          /\ tableInfo # Absent =>
                /\ Len(tableInfo[1].headers) > 0
                /\ Len(tableInfo[1].data) > 0

\* C13 witness: a node on which the try block throws (a body row without a
\* children array under a proper header) is rendered as the fallback notice
C13_Witness ==
    /\ tableShown = "fallback"
    /\ ExtractBody(node).threw
    /\ Tagged(node, "thead") # <<>>

HasNumericColumn ==
    props.data # <<>> /\ \E h \in Range(props.headers) : IsNumericValue(Get(props.data[1], h))

\* C15: viewMode starts as table; it changes only by a press of the table,
\* bar or pie button, bar and pie being on offer only with a numeric column;
\* so whenever viewMode is bar or pie the dataset has a numeric column.
C15_ViewMode ==
    /\ viewMode = "table"
    /\ [](viewMode \in {"table", "bar", "pie"})
    /\ [](viewMode \in {"bar", "pie"} => HasNumericColumn)
    /\ [][viewMode' # viewMode =>
            /\ viewMode' \in {"table", "bar", "pie"}
            /\ viewMode' \in {"bar", "pie"} => HasNumericColumn
            /\ UNCHANGED <<props, numericKeys, csvContent>>]_vars

\* C15 witness: the pie view of a dataset of two columns, one of them numeric
C15_Witness ==
    /\ viewMode = "pie"
    /\ Len(props.headers) = 2
    /\ numericKeys # Absent
    /\ Len(numericKeys[1]) = 1

\* the pieces of s between the occurrences of the character sep
RECURSIVE Split(_, _)
Split(s, sep) ==
    IF \E i \in DOMAIN s : s[i] = sep
    THEN LET p == CHOOSE i \in DOMAIN s : s[i] = sep /\ \A j \in 1..(i - 1) : s[j] # sep
         IN  <<SubSeq(s, 1, p - 1)>> \o Split(SubSeq(s, p + 1, Len(s)), sep)
    ELSE <<s>>

Quoted(f) == Len(f) >= 2 /\ f[1] = "\"" /\ f[Len(f)] = "\""

Unquoted(f) == SubSeq(f, 2, Len(f) - 1)

\* every record has a value under every header
FullRows == \A i \in DOMAIN props.data : Range(props.headers) \subseteq DOMAIN props.data[i]

\* C16: the exported text has the header row first and then one line
\* per data row in header order; split by newline it has 1 + row-count lines,
\* every line split by comma has header-count fields, every field is quoted.
C16_CsvRoundTrip ==
    (csvContent # Absent /\ FullRows) =>
        LET lines == Split(csvContent[1], "\n")
        IN  /\ Len(lines) = 1 + Len(props.data)
            /\ \A i \in DOMAIN lines :
                  /\ Len(Split(lines[i], ",")) = Len(props.headers)
                  /\ \A j \in DOMAIN Split(lines[i], ",") : Quoted(Split(lines[i], ",")[j])
            /\ \A j \in DOMAIN props.headers :
                  Unquoted(Split(lines[1], ",")[j]) = props.headers[j]
            /\ \A i \in DOMAIN props.data : \A j \in DOMAIN props.headers :
                  Unquoted(Split(lines[i + 1], ",")[j]) = StringOf(Get(props.data[i], props.headers[j]))

\* no header name and no value's text holds a comma or a newline
CleanText(t) == \A k \in DOMAIN t : t[k] \notin {",", "\n"}

Clean ==
    /\ \A j \in DOMAIN props.headers : CleanText(props.headers[j])
    /\ \A i \in DOMAIN props.data : \A j \in DOMAIN props.headers :
          CleanText(StringOf(Get(props.data[i], props.headers[j])))

\* What the export does give: when no header name and no value's text holds a
\* comma or a newline, the exported text split by newline has 1 + row-count lines, each of
\* header-count fields; the first line holds the header names as they are,
\* not quoted; the others hold the values in header order, each in quotes.
CsvExportOfCleanText ==
    (csvContent # Absent /\ Clean) =>
        LET lines == Split(csvContent[1], "\n")
        IN  /\ Len(lines) = 1 + Len(props.data)
            /\ \A i \in DOMAIN lines : Len(Split(lines[i], ",")) = Len(props.headers)
            /\ \A j \in DOMAIN props.headers : Split(lines[1], ",")[j] = props.headers[j]
            /\ \A i \in DOMAIN props.data : \A j \in DOMAIN props.headers :
                  /\ Quoted(Split(lines[i + 1], ",")[j])
                  /\ Unquoted(Split(lines[i + 1], ",")[j])
                        = StringOf(Get(props.data[i], props.headers[j]))

\* such an export: name,amount with the rows ("2023-01", 1234.5)
\* and ("1e5", "2023-01")
CsvExportReached ==
    /\ csvContent # Absent
    /\ props.headers = <<CtName, CtAmount>>
    /\ Len(props.data) = 2
    /\ Get(props.data[1], CtName) = StringValue(CtDate)
    /\ Get(props.data[1], CtAmount) = NumberValue(Num1234p5)
    /\ Get(props.data[2], CtName) = StringValue(CtSci)
    /\ Get(props.data[2], CtAmount) = StringValue(CtDate)
    /\ Split(csvContent[1], "\n")[2] =
           <<"\"","2","0","2","3","-","0","1","\"",",","\"","1","2","3","4",".","5","\"">>

\* s contains kw, letter case ignored
ContainsNoCase(s, kw) ==
    \E i \in 1..(Len(s) - Len(kw) + 1) :
        \A j \in DOMAIN kw : LowerChar(s[i + j - 1]) = LowerChar(kw[j])

Points(s, kw, n) == IF ContainsNoCase(s, kw) THEN n ELSE 0

ScoreAsStated(s) ==
    Points(s, <<"j","o","i","n">>, 2)
    + Points(s, <<"g","r","o","u","p"," ","b","y">>, 1)
    + Points(s, <<"h","a","v","i","n","g">>, 2)
    + Points(s, <<"w","i","t","h">>, 2)
    + Points(s, <<"u","n","i","o","n">>, 2)
    + (IF ContainsNoCase(s, <<"s","e","l","e","c","t">>) /\ ContainsNoCase(s, <<"w","h","e","r","e">>)
       THEN 1 ELSE 0)

\* C17: the tier is Simple iff the stated score is below 3, Intermediate iff
\* it is 3 to 5, Complex iff it is 6 or more; a plain SELECT without WHERE is
\* Simple, JOIN + GROUP BY + HAVING (5) Intermediate, with WITH (7) Complex.
C17_Complexity ==
    complexity # Unrendered =>
        /\ Score(sqlCode) = ScoreAsStated(sqlCode)
        /\ complexity = "Simple Query" <=> ScoreAsStated(sqlCode) < 3
        /\ complexity = "Intermediate Query" <=>
              (3 <= ScoreAsStated(sqlCode) /\ ScoreAsStated(sqlCode) < 6)
        /\ complexity = "Complex Analysis" <=> ScoreAsStated(sqlCode) >= 6
        /\ sqlCode = SqlPlain => complexity = "Simple Query"
        /\ sqlCode = SqlFive => (ScoreAsStated(sqlCode) = 5 /\ complexity = "Intermediate Query")
        /\ sqlCode = SqlSeven => (ScoreAsStated(sqlCode) = 7 /\ complexity = "Complex Analysis")

\* C17 witness: "select Join WHERE" scores 3 and is Intermediate
C17_Witness ==
    /\ complexity = "Intermediate Query"
    /\ ScoreAsStated(sqlCode) = 3
    /\ ContainsNoCase(sqlCode, <<"w","h","e","r","e">>)

\* the backend answered with a text of its own
GaveText(net) ==
    /\ net.fetch = "resolved" /\ net.ok /\ net.body.valid /\ ~net.body.null
    /\ net.body.content # Absent /\ net.body.content[1] # <<>>

\* a text made up by the client: the connection error text or the fallback
IsErrorText(t) == t = FallbackText \/ (t # <<>> /\ <<t[1]>> = ErrorPrefix)

\* the transcript after the welcome message is one user message and then one
\* assistant message per answered submit, and a last user message while waiting
TranscriptAsStated ==
    /\ \A net \in ChatOutcomes : ~generateSqlAnalysis(net).threw
    /\ Len(messages) = 1 + 2 * Len(answered) + (IF pending = Absent THEN 0 ELSE 1)
    /\ isLoading <=> pending # Absent
    /\ pending # Absent =>
          /\ messages[Len(messages)].role = "user"
          /\ messages[Len(messages)].content = pending[1]
    /\ \A k \in DOMAIN answered :
          /\ messages[2 * k].role = "user"
          /\ messages[2 * k + 1].role = "assistant"
          /\ IF GaveText(answered[k])
             THEN messages[2 * k + 1].content = answered[k].body.content[1]
             ELSE IsErrorText(messages[2 * k + 1].content)

\* C18: generateSqlAnalysis returns a text for every outcome of the backend
\* call, so every accepted submit appends one user message followed by one
\* assistant message holding the backend text or the error text, and
\* isLoading returns to false.
C18_CompletionNeverEscapes ==
    /\ []TranscriptAsStated
    /\ isLoading ~> ~isLoading

\* C18 witness: a submit whose fetch was rejected is answered in the
\* transcript by the connection error text, and isLoading is false again
C18_Witness ==
    /\ Len(answered) = 1
    /\ answered[1].fetch = "rejected"
    /\ Len(messages) = 3
    /\ messages[2].role = "user" /\ messages[2].content = InPadded
    /\ messages[3].role = "assistant" /\ messages[3].content = ErrorPrefix \o FetchFailed
    /\ ~isLoading

\* C19: in every step the old transcript is a prefix of the new one: no
\* message is removed, reordered or modified, also when a completion fails.
C19_AppendOnly ==
    [][/\ Len(messages') >= Len(messages)
       /\ \A i \in DOMAIN messages : messages'[i] = messages[i]]_vars

\* C19 witness: two submits, the first one failed, the second one answered
C19_Witness ==
    /\ Len(messages) = 5
    /\ Len(answered) = 2
    /\ ~GaveText(answered[1])
    /\ GaveText(answered[2])
    /\ messages[1] = Welcome

\* what the component shows of its renders: the error when there is one, else the svg
Committed == IF error # Absent THEN error ELSE svg

\* C20: a mermaid render that settles after the teardown, or after a newer
\* render was started, commits neither svg nor error: every change of svg or
\* error is made by the latest effect run, for the current code, while the
\* component is mounted; and once that run has settled, what is committed is its.
C20_StaleGuard ==
    /\ [](/\ svg # Absent => svg[1].code = renders[svg[1].by].code
          /\ (alive = "mounted" /\ diagramCode # <<>> /\ Len(renders) \notin rendering) =>
                (Committed # Absent /\ Committed[1].by = Len(renders)
                 /\ Committed[1].code = diagramCode))
    /\ [][(svg' # svg \/ error' # error) =>
            /\ alive = "mounted" /\ alive' = "mounted"
            /\ renders' = renders
            /\ settled' = Append(settled, Len(renders))
            /\ renders[Len(renders)].code = diagramCode
            /\ svg' # svg => svg' = Some([by |-> Len(renders), code |-> diagramCode])
            /\ error' # Absent => error' = Some([by |-> Len(renders), code |-> diagramCode])]_vars

\* C20 witness: the render of the first code settles after the render of the
\* second one has committed its svg, and the svg stays that of the second
C20_Witness ==
    /\ alive = "mounted"
    /\ Len(renders) = 2
    /\ renders[1].code # renders[2].code
    /\ settled = <<2, 1>>
    /\ svg = Some([by |-> 2, code |-> diagramCode])
    /\ error = Absent

\* the other case: a render that settles after the teardown commits nothing
TornDownReached ==
    /\ alive = "torn"
    /\ settled = <<1>>
    /\ svg = Absent
    /\ error = Absent

----------------------------------------------------------------------------
(* C21: executions of distinct messages are independent.                   *)

\* C21: a step of one message's instance (its mount effect, a Run Query click,
\* the arrival of the response of one of its calls) leaves isExecuting,
\* executionResult, the one-shot flag and the calls of every other instance
\* as they were, in any order the responses arrive
C21_Independent ==
    [][\A id \in MsgIds : Some(id) # current' => instances'[id] = instances[id]]_vars

\* both messages have auto-run, the response of m1 has arrived and stored a
\* result while the call of m2 is still unanswered
C21_Witness ==
    /\ instances["m1"].hasAutoRun /\ instances["m2"].hasAutoRun
    /\ instances["m1"].executionResult # Absent
    /\ ~instances["m1"].isExecuting
    /\ instances["m2"].isExecuting
    /\ instances["m2"].executionResult = Absent
    /\ instances["m2"].inflight # {}

----------------------------------------------------------------------------
(* C22: every started execution terminates.                                *)

\* C22: when every backend call settles, every call that was issued is
\* answered, and whenever isExecuting is true a state follows in which it is
\* false and a result (rows, or an error message) is stored
C22_Terminates ==
    /\ \A i \in 1..MaxRuns : (i \in inflight) ~> (i \notin inflight)
    /\ isExecuting ~> (~isExecuting /\ executionResult # Absent)

\* two runs have been issued and answered, the last answer a failure
C22_Witness ==
    /\ Len(calls) >= 2
    /\ inflight = {}
    /\ ~isExecuting
    /\ executionResult # Absent
    /\ executionResult[1].error # Absent

----------------------------------------------------------------------------
(* C23: the numeric test of DataVisualizer against the extractor's.        *)

\* the extractor's coercion rule on the text of a value: the text matches the
\* pattern in full and is finite after comma removal
ExtractorNumeric(val) == CellValue(StringOf(val)).isNumber

\* C23: once DataVisualizer has rendered, a header is among its numeric keys
\* iff the extractor's coercion rule treats the first row's value under that
\* header as numeric
C23_SameNumericTest ==
    numericKeys # Absent =>
        \A i \in DOMAIN props.headers :
            (props.headers[i] \in Range(numericKeys[1]))
                <=> ExtractorNumeric(FirstRowValue(props.data, props.headers[i]))

----------------------------------------------------------------------------
(* C24: the label key of the bar and pie views.                            *)

\* C24: once DataVisualizer has rendered a non-empty header list, its label
\* key is the first header that is not among the numeric keys, and the first
\* header when every header is numeric
C24_LabelKey ==
    (numericKeys # Absent /\ props.headers # <<>>) =>
        LET hs == props.headers
            text == {i \in DOMAIN hs : hs[i] \notin Range(numericKeys[1])}
        IN  LabelKey(hs, numericKeys[1]) =
                IF text = {} THEN Some(hs[1])
                ELSE Some(hs[CHOOSE i \in text : \A j \in text : i <= j])

----------------------------------------------------------------------------
(* C25: positional assignment of the cells of a body row.                  *)

\* C25: in every record of a returned dataset the keys are the headers at the
\* positions that have both a header and a data cell; the cell at such a
\* position is stored under the header at that position unless a later such
\* position has the same header name, whose cell then takes its place; cells
\* beyond the header count are stored nowhere
C25_Positional ==
    tableInfo # Absent =>
        \A r \in DOMAIN tableInfo[1].data :
            LET hs == tableInfo[1].headers
                cells == Tagged(SourceRows(node)[r], "td")
                used == {i \in DOMAIN cells : i <= Len(hs)}
            IN  /\ DOMAIN tableInfo[1].data[r] = {hs[i] : i \in used}
                /\ \A i \in used :
                      (\A j \in used : j > i => hs[j] # hs[i])
                          => tableInfo[1].data[r][hs[i]] = CellValue(trim(getText(cells[i])))

\* two headers of the same name and a body row of three data cells: the second
\* cell is the value under the name, the first is overwritten, the third dropped
C25_Witness ==
    /\ tableInfo # Absent
    /\ tableInfo[1].headers = <<CtName, CtName>>
    /\ Len(Tagged(SourceRows(node)[1], "td")) = 3
    /\ tableInfo[1].data[1][CtName] = CellValue(CtMoney)
    /\ CellValue(CtMoney) # CellValue(CtDate)

----------------------------------------------------------------------------
(* C26, C27: the spinner, the calls in flight and the result.              *)

\* C26: while a call issued by handleRunQuery is unanswered, isExecuting is
\* true
C26_SpinnerAccurate == inflight # {} => isExecuting

\* C27: in every state in which isExecuting is true no result is stored
C27_SpinnerExcludesResult == isExecuting => executionResult = Absent

\* the first call has been answered and has stored a result, a second run has
\* cleared it and is unanswered
C27_Witness ==
    /\ Len(calls) >= 2
    /\ 1 \notin inflight
    /\ 2 \in inflight
    /\ isExecuting
    /\ executionResult = Absent

----------------------------------------------------------------------------
(* C28: one execution state for all sql blocks of a message.               *)

\* C28: a step that issues a call (from any block, or the auto-run) leaves
\* the spinner and no panel under every sql-classified block of the message,
\* whatever block produced the result shown before; a step in which call i
\* is answered leaves the panel of the result of call i, and no spinner,
\* under every sql-classified block
C28_SharedState ==
    [][/\ Len(calls') > Len(calls) =>
             \A b \in SqlBlocks :
                 ShownUnder(b)' = [spinner |-> TRUE, panel |-> "none", of |-> Absent]
       /\ \A i \in inflight \ inflight' :
             \A b \in SqlBlocks :
                 /\ ~ShownUnder(b)'.spinner
                 /\ ShownUnder(b)'.panel \in {"failed", "results"}
                 /\ ShownUnder(b)'.of[1].run = i]_vars

\* a message with two sql blocks: the text of one was run and answered, then
\* the text of the other was run, which discarded that result
C28_Witness ==
    /\ Cardinality(SqlBlocks) >= 2
    /\ Len(calls) >= 2
    /\ calls[1].sql # calls[2].sql
    /\ inflight = {2}
    /\ isExecuting
    /\ executionResult = Absent

----------------------------------------------------------------------------
(* C29: the guard of handleSubmit.                                         *)

\* the completion requests issued and not yet settled: one per user message,
\* less those answered
RequestsInFlight == Len(UserMessages) - Len(answered)

\* C29: a step that appends a user message, turns isLoading true or issues a
\* completion request starts from a state with isLoading false and an input
\* that is not blank; at most one completion request is in flight; after the
\* welcome message the roles alternate user, assistant
C29_SubmitGuard ==
    /\ [][(\/ Len(UserMessages') > Len(UserMessages)
           \/ (isLoading' /\ ~isLoading)
           \/ (pending' # Absent /\ pending' # pending))
              => (~isLoading /\ trim(input) # <<>>)]_vars
    /\ [](RequestsInFlight \in {0, 1})
    /\ [](\A i \in 2..Len(messages) :
             messages[i].role = IF i % 2 = 0 THEN "user" ELSE "assistant")

\* a second question is waiting for its answer, the input field is empty again
C29_Witness ==
    /\ Len(messages) = 4
    /\ messages[4].role = "user"
    /\ isLoading
    /\ RequestsInFlight = 1
    /\ trim(input) = <<>>

----------------------------------------------------------------------------
(* C30: message ids.                                                       *)

\* C30: the messages of the transcript have pairwise distinct ids
C30_UniqueIds ==
    \A i, j \in DOMAIN messages : i # j => messages[i].id # messages[j].id

====
